---- MODULE Spec2Model ----
(***************************************************************************)
(* GOLF toolchain: the assembler (src/assemble.py) and the virtual machine *)
(* (src/golf.py), modelled as the run `assemble.py -r`: a source program   *)
(* is preprocessed, pooled, expanded, resolved and encoded, and the binary *)
(* is executed by GolfCPU.run one instruction per step.                    *)
(*                                                                         *)
(* Python integers are unbounded, TLC's are 32-bit.  An integer of the     *)
(* program is therefore the record [neg, mag]: its sign and its magnitude  *)
(* as little-endian base-256 digits without leading zero digits, which is  *)
(* also the byte order of every struct.pack("<...") of the source.         *)
(***************************************************************************)
EXTENDS Integers, Sequences, FiniteSets, Bags, TLC

\* Bounds of the model.
MaxSteps == 24      \* instructions one run dispatches

MaxShift == 72      \* largest left-shift count of a non-zero value

MaxMem == 24        \* bytes of heap or stack a store may reach

\* ------------------------------------------------------------------------
\* Python int arithmetic on digit sequences
\* ------------------------------------------------------------------------

Max(a, b) == IF a >= b THEN a ELSE b

Min(a, b) == IF a <= b THEN a ELSE b

RECURSIVE Pow2(_)
Pow2(k) == IF k = 0 THEN 1 ELSE 2 * Pow2(k - 1)

RECURSIVE Trim(_)
Trim(m) == IF m # <<>> /\ m[Len(m)] = 0 THEN Trim(SubSeq(m, 1, Len(m) - 1)) ELSE m

RECURSIVE NatMag(_)
NatMag(n) == IF n = 0 THEN <<>> ELSE <<n % 256>> \o NatMag(n \div 256)

Zeros(k) == [i \in 1..k |-> 0]

Digit(m, i) == IF i <= Len(m) THEN m[i] ELSE 0

RECURSIVE MagAddFrom(_, _, _, _)
MagAddFrom(a, b, i, c) ==
    IF i > Len(a) /\ i > Len(b)
    THEN (IF c = 0 THEN <<>> ELSE <<c>>)
    ELSE LET s == Digit(a, i) + Digit(b, i) + c
         IN  <<s % 256>> \o MagAddFrom(a, b, i + 1, s \div 256)

MagAdd(a, b) == MagAddFrom(a, b, 1, 0)

RECURSIVE MagCmpFrom(_, _, _)
MagCmpFrom(a, b, i) ==
    IF i = 0 THEN 0
    ELSE IF a[i] < b[i] THEN -1
    ELSE IF a[i] > b[i] THEN 1
    ELSE MagCmpFrom(a, b, i - 1)

\* -1, 0, 1 as a < b, a = b, a > b.
MagCmp(a, b) ==
    IF Len(a) < Len(b) THEN -1
    ELSE IF Len(a) > Len(b) THEN 1
    ELSE MagCmpFrom(a, b, Len(a))

RECURSIVE MagSubFrom(_, _, _, _)
MagSubFrom(a, b, i, c) ==
    IF i > Len(a) THEN <<>>
    ELSE LET s == a[i] - Digit(b, i) - c
         IN  IF s < 0 THEN <<s + 256>> \o MagSubFrom(a, b, i + 1, 1)
                      ELSE <<s>> \o MagSubFrom(a, b, i + 1, 0)

\* a - b for a >= b.
MagSub(a, b) == Trim(MagSubFrom(a, b, 1, 0))

RECURSIVE MagMulDigitFrom(_, _, _, _)
MagMulDigitFrom(a, d, i, c) ==
    IF i > Len(a)
    THEN (IF c = 0 THEN <<>> ELSE <<c>>)
    ELSE LET s == a[i] * d + c
         IN  <<s % 256>> \o MagMulDigitFrom(a, d, i + 1, s \div 256)

MagMulDigit(a, d) == Trim(MagMulDigitFrom(a, d, 1, 0))

RECURSIVE MagMul(_, _)
MagMul(a, b) ==
    IF a = <<>> \/ b = <<>> THEN <<>>
    ELSE Trim(MagAdd(MagMulDigit(a, Head(b)), <<0>> \o MagMul(a, Tail(b))))

\* a * 2^n
MagShl(a, n) ==
    IF a = <<>> THEN <<>>
    ELSE Zeros(n \div 8) \o MagMulDigit(a, Pow2(n % 8))

\* floor(a / 2^n)
MagShr(a, n) ==
    IF n \div 8 >= Len(a) THEN <<>>
    ELSE LET t == SubSeq(a, n \div 8 + 1, Len(a))
             k == n % 8
         IN  Trim([i \in 1..Len(t) |->
                     (t[i] \div Pow2(k)) + (Digit(t, i + 1) % Pow2(k)) * Pow2(8 - k)])

\* a mod 2^n
MagMod2k(a, n) ==
    LET full == n \div 8
        k    == n % 8
    IN  Trim([i \in 1..Min(Len(a), full + (IF k = 0 THEN 0 ELSE 1)) |->
                IF i <= full THEN a[i] ELSE a[i] % Pow2(k)])

\* Bit i (from 0) of a.
MagBit(a, i) == (Digit(a, i \div 8 + 1) \div Pow2(i % 8)) % 2

RECURSIVE ByteOp(_, _, _, _)
ByteOp(op, x, y, k) ==
    IF k = 0 THEN 0
    ELSE LET p == x % 2
             q == y % 2
             r == CASE op = "and" -> p * q
                    [] op = "or"  -> IF p + q > 0 THEN 1 ELSE 0
                    [] op = "xor" -> (p + q) % 2
         IN  r + 2 * ByteOp(op, x \div 2, y \div 2, k - 1)

MagBitOp(op, a, b) ==
    Trim([i \in 1..Max(Len(a), Len(b)) |-> ByteOp(op, Digit(a, i), Digit(b, i), 8)])

\* Long division, one bit of the dividend at a time: <<quotient, remainder>>.
RECURSIVE MagDivModFrom(_, _, _, _, _)
MagDivModFrom(a, b, i, q, r) ==
    IF i < 0 THEN <<q, r>>
    ELSE LET r2 == Trim(MagAdd(MagAdd(r, r), IF MagBit(a, i) = 1 THEN <<1>> ELSE <<>>))
             ge == MagCmp(r2, b) >= 0
             q2 == Trim(MagAdd(MagAdd(q, q), IF ge THEN <<1>> ELSE <<>>))
             r3 == IF ge THEN MagSub(r2, b) ELSE r2
         IN  IF Len(q2) + Len(r3) >= 0   \* evaluates q2 and r3 before the next step
             THEN MagDivModFrom(a, b, i - 1, q2, r3)
             ELSE <<q, r>>

MagDivMod(a, b) == MagDivModFrom(a, b, 8 * Len(a) - 1, <<>>, <<>>)

\* The Python int of sign neg and magnitude m.
MkInt(neg, m) == LET t == Trim(m) IN [neg |-> neg /\ t # <<>>, mag |-> t]

\* A small integer as a Python int.
I(n) == IF n < 0 THEN MkInt(TRUE, NatMag(-n)) ELSE MkInt(FALSE, NatMag(n))

\* 2^k as a Python int.
P2(k) == MkInt(FALSE, MagShl(<<1>>, k))

IsZero(x) == x.mag = <<>>

IntNeg(x) == MkInt(~x.neg, x.mag)

IntAdd(x, y) ==
    IF x.neg = y.neg THEN MkInt(x.neg, MagAdd(x.mag, y.mag))
    ELSE IF MagCmp(x.mag, y.mag) >= 0 THEN MkInt(x.neg, MagSub(x.mag, y.mag))
    ELSE MkInt(y.neg, MagSub(y.mag, x.mag))

IntSub(x, y) == IntAdd(x, IntNeg(y))

IntMul(x, y) == MkInt(x.neg # y.neg, MagMul(x.mag, y.mag))

\* x < y
IntLt(x, y) ==
    IF x.neg # y.neg THEN x.neg
    ELSE IF x.neg THEN MagCmp(x.mag, y.mag) > 0
    ELSE MagCmp(x.mag, y.mag) < 0

IntLe(x, y) == x = y \/ IntLt(x, y)

\* x // y, rounding to minus infinity (y # 0).
IntFloorDiv(x, y) ==
    LET qr == MagDivMod(x.mag, y.mag)
    IN  IF x.neg = y.neg THEN MkInt(FALSE, qr[1])
        ELSE IF qr[2] = <<>> THEN MkInt(TRUE, qr[1])
        ELSE MkInt(TRUE, MagAdd(qr[1], <<1>>))

\* x % y, with the sign of y (y # 0).
IntMod(x, y) == IntSub(x, IntMul(IntFloorDiv(x, y), y))

\* x & (2^n - 1)
IntMask(x, n) ==
    LET m == MagMod2k(x.mag, n)
    IN  IF ~x.neg \/ m = <<>> THEN MkInt(FALSE, m)
        ELSE MkInt(FALSE, MagSub(MagShl(<<1>>, n), m))

\* x << n
IntShl(x, n) == MkInt(x.neg, MagShl(x.mag, n))

\* x >> n, rounding to minus infinity.
IntShr(x, n) ==
    IF ~x.neg THEN MkInt(FALSE, MagShr(x.mag, n))
    ELSE MkInt(TRUE, MagAdd(MagShr(MagSub(x.mag, <<1>>), n), <<1>>))

\* The value of a Python int known to be less than 2^24.
RECURSIVE MagToNat(_)
MagToNat(m) == IF m = <<>> THEN 0 ELSE Head(m) + 256 * MagToNat(Tail(m))

IsSmall(x) == ~x.neg /\ Len(x.mag) <= 3

ToNat(x) == MagToNat(x.mag)

\* ------------------------------------------------------------------------
\* Operands and the instruction table
\* ------------------------------------------------------------------------

ascii_lowercase ==
    << "a", "b", "c", "d", "e", "f", "g", "h", "i", "j", "k", "l", "m",
       "n", "o", "p", "q", "r", "s", "t", "u", "v", "w", "x", "y", "z" >>

RegNames == {ascii_lowercase[i] : i \in 1..26}

\* string.ascii_lowercase.index(r), from 0.
LetterIndex(r) == (CHOOSE i \in 1..26 : ascii_lowercase[i] = r) - 1

\* Operand classes: a register, a Python int, a label, a data literal.
Reg(r) == [t |-> "reg", reg |-> r]

Imm(x) == [t |-> "int", v |-> x]

Label(instr_nr, name) == [t |-> "label", instr_nr |-> instr_nr, name |-> name]

Data(data) == [t |-> "data", data |-> data]

IsReg(op) == op.t = "reg"

IsInt(op) == op.t = "int"

IsLabel(op) == op.t = "label"

IsData(op) == op.t = "data"

\* idata.instr_names: the mnemonic of each 7-bit id (id = position - 1).
instr_names ==
    << "not", "or", "xor", "and", "shl", "shr", "sar", "add", "sub", "cmp",
       "neq", "le", "leq", "leu", "lequ", "mul", "mulu", "div", "divu",
       "lb", "lbu", "ls", "lsu", "li", "liu", "lw", "sb", "ss", "si", "sw",
       "rand", "jz", "jnz", "call", "ret", "halt" >>

\* idata.instr_ids: the inverse of instr_names.
instr_ids(instr) == (CHOOSE i \in 1..Len(instr_names) : instr_names[i] = instr) - 1

Alu3 == {"or", "xor", "and", "shl", "shr", "sar", "add", "sub", "cmp", "neq",
         "le", "leq", "leu", "lequ"}

MulDiv == {"mul", "mulu", "div", "divu"}

Loads == {"lb", "lbu", "ls", "lsu", "li", "liu", "lw"}

Stores == {"sb", "ss", "si", "sw"}

Pseudo == {"ge", "geq", "geu", "gequ", "mov", "inc", "dec", "neg", "jmp",
           "sz", "snz", "push", "pop"}

\* idata.instr_signatures: (number of output registers, number of inputs).
instr_signatures(instr) ==
    CASE instr \in Alu3 \cup {"ge", "geq", "geu", "gequ"} -> <<1, 2>>
      [] instr \in MulDiv                 -> <<2, 2>>
      [] instr \in Loads                  -> <<1, 1>>
      [] instr \in {"not", "mov", "pop"}  -> <<1, 1>>
      [] instr \in {"inc", "dec", "neg", "rand"} -> <<1, 0>>
      [] instr \in Stores \cup {"jz", "jnz", "push"} -> <<0, 2>>
      [] instr \in {"sz", "snz"}          -> <<0, 2>>
      [] instr \in {"call", "jmp", "halt"} -> <<0, 1>>

KnownInstr == {instr_names[i] : i \in 1..Len(instr_names)} \cup Pseudo

\* ------------------------------------------------------------------------
\* GolfCPU helpers (src/golf.py)
\* ------------------------------------------------------------------------

StdioAddr == IntSub(P2(64), I(1))      \* 0xffffffffffffffff

DataBase  == P2(61)                    \* 0x2000000000000000

StackBase == P2(60)                    \* 0x1000000000000000

\* n-bit two's complement int to int.
twos(x, n) == IF MagBit(IntMask(x, n).mag, n - 1) = 1 THEN IntSub(x, P2(n)) ELSE x

\* Unsigned wrapping, int to two's complement.
u(x) == IntMask(x, 64)

\* Python's a >> n for n >= 0 of any size.
PyShr(a, n) ==
    IF ~IsSmall(n) \/ ToNat(n) >= 8 * Len(a.mag)
    THEN (IF a.neg THEN I(-1) ELSE I(0))
    ELSE IntShr(a, ToNat(n))

\* Python's a << n for n >= 0; for a # 0 the count is within MaxShift.
PyShl(a, n) == IF IsZero(a) THEN a ELSE IntShl(a, ToNat(n))

shl(a, b) ==
    LET b2 == twos(b, 64)
    IN  IF b2.neg THEN PyShr(a, IntNeg(b2)) ELSE PyShl(a, b2)

\* A right shift that reads every count as unsigned.
shrUnsignedCount(a, b) == PyShr(a, b)

shr(a, b) == shl(a, u(IntNeg(twos(b, 64))))

sar(a, b) == u(shr(twos(a, 64), b))

mulu(a, b) ==
    LET r == IntMask(IntMul(a, b), 128)
    IN  <<u(r), IntShr(r, 64)>>

\* A signed multiply that reads its operands as unsigned.
mulOfUnsigned(a, b) == mulu(a, b)

mul(a, b) == mulu(twos(a, 64), twos(b, 64))

div(a, b) ==
    LET a2 == twos(a, 64)
        b2 == twos(b, 64)
    IN  <<u(IntFloorDiv(a2, b2)), u(IntMod(a2, b2))>>

divu(a, b) == <<IntFloorDiv(a, b), IntMod(a, b)>>

\* The count of the left shift that shl(a, b) performs on a non-zero a, -1 if none.
LeftShiftOf(a, b) ==
    LET b2 == twos(b, 64)
    IN  IF b2.neg \/ IsZero(a) THEN I(-1) ELSE b2

\* ------------------------------------------------------------------------
\* Memory (GolfCPU.load, GolfCPU.store)
\* ------------------------------------------------------------------------

\* Python's seg[a:a+width] for a >= 0: cut short at the end of seg.
Slice(seg, a, width) ==
    IF ~IsSmall(a) \/ ToNat(a) >= Len(seg) THEN <<>>
    ELSE SubSeq(seg, ToNat(a) + 1, Min(ToNat(a) + width, Len(seg)))

\* x as width little-endian bytes (0 <= x < 2^(8*width)).
Bytes(x, width) == [i \in 1..width |-> Digit(x.mag, i)]

\* struct.unpack("<" + fmts[width], bytes(r))[0]; fmts[2] is "S", which is
\* no struct format character, so the 2-byte access raises struct.error.
Unpack(r, width) ==
    IF width = 2 \/ Len(r) # width
    THEN [err |-> "struct.error", v |-> I(0)]
    ELSE [err |-> "", v |-> MkInt(FALSE, r)]

\* GolfCPU.load: [err, v, stdin] from the address a and the machine's memory.
load(a, width, m_data, m_stack, m_heap, m_stdin) ==
    IF a = StdioAddr
    THEN IF width # 8
         THEN [err |-> "RuntimeError", v |-> I(0), stdin |-> m_stdin]
         ELSE IF m_stdin = <<>>
         THEN [err |-> "TypeError", v |-> I(0), stdin |-> m_stdin]
         ELSE [err |-> "",
               v |-> IF Head(m_stdin) = 0 THEN u(I(-1)) ELSE I(Head(m_stdin)),
               stdin |-> Tail(m_stdin)]
    ELSE LET r == IF IntLe(DataBase, a) THEN Slice(m_data, IntSub(a, DataBase), width)
                  ELSE IF IntLe(StackBase, a) THEN Slice(m_stack, IntSub(a, StackBase), width)
                  ELSE Slice(m_heap, a, width)
             x == Unpack(r, width)
         IN  [err |-> x.err, v |-> x.v, stdin |-> m_stdin]

\* seg with bytes b written at offset o, zero-extended first when too short.
Written(seg, o, b) ==
    LET ext == IF Len(seg) < o + Len(b) THEN seg \o Zeros(o + Len(b) - Len(seg)) ELSE seg
    IN  [i \in 1..Len(ext) |-> IF i > o /\ i <= o + Len(b) THEN b[i - o] ELSE ext[i]]

\* The segment offset a store at address a writes to (heap or stack).
StoreOffset(a) == IF IntLe(StackBase, a) THEN IntSub(a, StackBase) ELSE a

\* A store that lets a write to the data segment pass without effect.
storeReadOnlyIgnored(a, b, width, m_stack, m_heap, m_stdout) ==
    IF a = StdioAddr
    THEN IF width # 8
         THEN [err |-> "RuntimeError", stack |-> m_stack, heap |-> m_heap, stdout |-> m_stdout]
         ELSE [err |-> "", stack |-> m_stack, heap |-> m_heap,
               stdout |-> Append(m_stdout, ToNat(IntMask(b, 8)))]
    ELSE IF width = 2
    THEN [err |-> "struct.error", stack |-> m_stack, heap |-> m_heap, stdout |-> m_stdout]
    ELSE LET packed == Bytes(IntMask(b, 8 * width), width)
         IN  IF IntLe(DataBase, a)
             THEN [err |-> "", stack |-> m_stack, heap |-> m_heap, stdout |-> m_stdout]
             ELSE IF IntLe(StackBase, a)
             THEN [err |-> "", heap |-> m_heap, stdout |-> m_stdout,
                   stack |-> Written(m_stack, ToNat(StoreOffset(a)), packed)]
             ELSE [err |-> "", stack |-> m_stack, stdout |-> m_stdout,
                   heap |-> Written(m_heap, ToNat(StoreOffset(a)), packed)]

\* GolfCPU.store: [err, stack, heap, stdout].
store(a, b, width, m_stack, m_heap, m_stdout) ==
    IF a = StdioAddr
    THEN IF width # 8
         THEN [err |-> "RuntimeError", stack |-> m_stack, heap |-> m_heap, stdout |-> m_stdout]
         ELSE [err |-> "", stack |-> m_stack, heap |-> m_heap,
               stdout |-> Append(m_stdout, ToNat(IntMask(b, 8)))]
    ELSE IF width = 2
    THEN [err |-> "struct.error", stack |-> m_stack, heap |-> m_heap, stdout |-> m_stdout]
    ELSE LET packed == Bytes(IntMask(b, 8 * width), width)
         IN  IF IntLe(DataBase, a)
             THEN [err |-> "RuntimeError", stack |-> m_stack, heap |-> m_heap,
                   stdout |-> m_stdout]
             ELSE IF IntLe(StackBase, a)
             THEN [err |-> "", heap |-> m_heap, stdout |-> m_stdout,
                   stack |-> Written(m_stack, ToNat(StoreOffset(a)), packed)]
             ELSE [err |-> "", stack |-> m_stack, stdout |-> m_stdout,
                   heap |-> Written(m_heap, ToNat(StoreOffset(a)), packed)]

\* ------------------------------------------------------------------------
\* Decoder (GolfCPU.unpack_imm, GolfCPU.run)
\* ------------------------------------------------------------------------

\* struct.calcsize of the formats "_bhiQ"[code].
ImmWidth(code) == CASE code = 1 -> 1 [] code = 2 -> 2 [] code = 3 -> 4 [] code = 4 -> 8

\* Every immediate read as unsigned, whatever its descriptor.
UnpackImmUnsigned(b, code) == MkInt(FALSE, b)

\* The value of the little-endian bytes b read as b, h, i (signed) or Q.
UnpackImm(b, code) ==
    LET x == MkInt(FALSE, b)
    IN  IF code < 4 /\ b[Len(b)] >= 128 THEN IntSub(x, P2(8 * Len(b))) ELSE x

\* The operand loop of run: descriptors from the low end of flags, the
\* immediates read at p.  [err, args, isp].
RECURSIVE DecodeArgs(_, _, _)
DecodeArgs(ins, p, flags) ==
    IF flags = 0 THEN [err |-> "", args |-> <<>>, isp |-> p]
    ELSE LET arg_flag == flags % 32
             rest     == flags \div 32
         IN  IF arg_flag = 0
             THEN LET d == DecodeArgs(ins, p, rest)
                  IN  [d EXCEPT !.args = <<Imm(I(0))>> \o @]
             ELSE IF arg_flag < 5
             THEN IF p + ImmWidth(arg_flag) > Len(ins)
                  THEN [err |-> "struct.error", args |-> <<>>, isp |-> p]
                  ELSE LET b == SubSeq(ins, p + 1, p + ImmWidth(arg_flag))
                           d == DecodeArgs(ins, p + ImmWidth(arg_flag), rest)
                       IN  [d EXCEPT !.args = <<Imm(u(UnpackImm(b, arg_flag)))>> \o @]
             ELSE IF arg_flag - 5 >= 26
             THEN [err |-> "IndexError", args |-> <<>>, isp |-> p]
             ELSE LET d == DecodeArgs(ins, p, rest)
                  IN  [d EXCEPT !.args = <<Reg(ascii_lowercase[arg_flag - 4])>> \o @]

\* A ret bitmap read over the letters b..z.
RECURSIVE RetArgsOverBToZ(_, _)
RetArgsOverBToZ(flags, i) ==
    IF i > 25 THEN <<>>
    ELSE (IF flags % 2 = 1 THEN <<Reg(ascii_lowercase[i + 1])>> ELSE <<>>)
         \o RetArgsOverBToZ(flags \div 2, i + 1)

\* The registers of a ret bitmap, in alphabetical order.
RECURSIVE RetArgs(_, _)
RetArgs(flags, i) ==
    IF i > 25 THEN <<>>
    ELSE (IF flags % 2 = 1 THEN <<Reg(ascii_lowercase[i])>> ELSE <<>>)
         \o RetArgs(flags \div 2, i + 1)

\* One turn of run's loop up to the dispatch: the instruction at offset p of
\* ins.  [err, name, args, isp] with isp the offset after its last byte.
Decode(ins, p) ==
    IF p + 4 > Len(ins)
    THEN [err |-> "struct.error", name |-> "", args |-> <<>>, isp |-> p]
    ELSE LET instr_id    == ins[p + 1] % 128
             instr_flags == (ins[p + 1] \div 128) + 2 * ins[p + 2]
                            + 512 * ins[p + 3] + 131072 * ins[p + 4]
         IN  IF instr_id >= Len(instr_names)
             THEN [err |-> "IndexError", name |-> "", args |-> <<>>, isp |-> p + 4]
             ELSE IF instr_names[instr_id + 1] = "ret"
             THEN [err |-> "", name |-> "ret", args |-> RetArgs(instr_flags, 1),
                   isp |-> p + 4]
             ELSE LET d == DecodeArgs(ins, p + 4, instr_flags)
                  IN  [err |-> d.err, name |-> instr_names[instr_id + 1],
                       args |-> d.args \o [i \in 1..(5 - Len(d.args)) |-> Imm(I(0))],
                       isp |-> d.isp]

\* ------------------------------------------------------------------------
\* State
\* ------------------------------------------------------------------------

VARIABLES
    pc,             \* where the run `assemble.py -r` stands
    err,            \* the exception that ended it ("" while none)
    lines,          \* assemble: the source lines
    stdin,          \* sys.stdin: the characters not yet read
    stdout,         \* sys.stdout: the characters written
    variables,      \* preprocess: the symbol environment
    instructions,   \* preprocess: the logical instructions
    data_segment,   \* assemble: the pooled data
    data_offsets,   \* assemble: payload -> guest address
    no_pseudo,      \* assemble: the expanded instructions
    instr_nrs,      \* assemble: logical index -> expanded index
    offsets,        \* assemble: prefix sums of the expanded sizes
    labels,         \* assemble: debug["labels"]
    positions,      \* assemble: the keys of debug, in emission order
    binary,         \* assemble: the binary handed to GolfCPU
    cpu,            \* GolfCPU: [data, instructions], fixed at construction
    isp, regs, callstack, stack, heap, cycle_count,
    result,         \* <<value>> once run has returned
    executed,       \* history: the instructions run has dispatched to completion
    last,           \* history: the instruction dispatched last (ok: it did not raise)
    calls           \* history: per open call, the registers before it and its end

asm_vars == <<lines, variables, instructions, data_segment, data_offsets, no_pseudo,
              instr_nrs, offsets, labels, positions, binary>>

cpu_vars == <<cpu, isp, regs, callstack, stack, heap, cycle_count, result, stdin,
              stdout, executed, last, calls>>

vars == <<pc, err, asm_vars, cpu_vars>>

\* ------------------------------------------------------------------------
\* GolfCPU.run and GolfCPU.execute_instr, one instruction per step
\* ------------------------------------------------------------------------

Running == pc = "run" /\ BagCardinality(executed) < MaxSteps

InProgram == IntLt(isp, I(Len(cpu.instructions)))

\* The instruction run decodes next.
Cur == Decode(cpu.instructions, ToNat(isp))

Fetched == Running /\ InProgram /\ Cur.err = ""

\* "Look up register values": the operands from position k_out on by value.
LookedUp(args, k_out) ==
    [i \in 1..Len(args) |->
        IF i > k_out /\ IsReg(args[i]) THEN regs[args[i].reg] ELSE
        IF IsInt(args[i]) THEN args[i].v ELSE I(0)]

\* The operand values of the current instruction.
Arg == LookedUp(Cur.args, instr_signatures(Cur.name)[1])

\* The first k operands name registers (execute_instr indexes regs by them).
OutputsAreRegs(k) == \A i \in 1..k : IsReg(Cur.args[i])

Truth(b) == IF b THEN I(1) ELSE I(0)

\* The value execute_instr assigns for a one-output arithmetic instruction.
AluValue(instr, a, b) ==
    CASE instr = "not"  -> Truth(IsZero(a))
      [] instr = "or"   -> MkInt(FALSE, MagBitOp("or", a.mag, b.mag))
      [] instr = "xor"  -> MkInt(FALSE, MagBitOp("xor", a.mag, b.mag))
      [] instr = "and"  -> MkInt(FALSE, MagBitOp("and", a.mag, b.mag))
      [] instr = "shl"  -> shl(a, b)
      [] instr = "shr"  -> shr(a, b)
      [] instr = "sar"  -> sar(a, b)
      [] instr = "add"  -> u(IntAdd(a, b))
      [] instr = "sub"  -> u(IntSub(a, b))
      [] instr = "cmp"  -> Truth(a = b)
      [] instr = "neq"  -> Truth(a # b)
      [] instr = "le"   -> Truth(IntLt(twos(a, 64), twos(b, 64)))
      [] instr = "leq"  -> Truth(IntLe(twos(a, 64), twos(b, 64)))
      [] instr = "leu"  -> Truth(IntLt(a, b))
      [] instr = "lequ" -> Truth(IntLe(a, b))

\* The left shift an arithmetic instruction performs stays within MaxShift.
ShiftInModel(instr, a, b) ==
    LET n == CASE instr = "shl" -> LeftShiftOf(a, b)
               [] instr = "shr" -> LeftShiftOf(a, u(IntNeg(twos(b, 64))))
               [] instr = "sar" -> LeftShiftOf(twos(a, 64), u(IntNeg(twos(b, 64))))
               [] OTHER -> I(-1)
    IN  n.neg \/ (IsSmall(n) /\ ToNat(n) <= MaxShift)

\* What every completed instruction but ret and halt does last.
Charge(instr) == cycle_count' = cycle_count (+) SetToBag({instr})

Note(instr) ==
    /\ executed' = executed (+) SetToBag({instr})
    /\ last' = [name |-> instr, args |-> Cur.args, at |-> ToNat(isp), end |-> Cur.isp,
                regs |-> regs, vals |-> Arg, ok |-> TRUE]

\* The run ends with exception e raised inside execute_instr.
Raise(e) ==
    /\ pc' = "error"
    /\ err' = e
    /\ isp' = I(Cur.isp)
    /\ last' = [name |-> Cur.name, args |-> Cur.args, at |-> ToNat(isp), end |-> Cur.isp,
                regs |-> regs, vals |-> IF Cur.name = "ret" THEN <<>> ELSE Arg,
                ok |-> FALSE]
    /\ UNCHANGED <<asm_vars, cpu, regs, callstack, stack, heap, cycle_count, result,
                   stdin, stdout, executed, calls>>

ExecAlu ==
    /\ Fetched
    /\ Cur.name \in Alu3 \cup {"not"}
    /\ OutputsAreRegs(1)
    /\ ShiftInModel(Cur.name, Arg[2], Arg[3])
    /\ regs' = [regs EXCEPT ![Cur.args[1].reg] = AluValue(Cur.name, Arg[2], Arg[3])]
    /\ isp' = I(Cur.isp)
    /\ Charge(Cur.name)
    /\ Note(Cur.name)
    /\ UNCHANGED <<pc, err, asm_vars, cpu, callstack, stack, heap, result, stdin, stdout,
                   calls>>

MulDivValue(instr, a, b) ==
    CASE instr = "mul"  -> mul(a, b)
      [] instr = "mulu" -> mulu(a, b)
      [] instr = "div"  -> div(a, b)
      [] instr = "divu" -> divu(a, b)

\* The divisor Python divides by.
Divisor(instr, b) == IF instr = "div" THEN twos(b, 64) ELSE b

ExecMulDiv ==
    /\ Fetched
    /\ Cur.name \in MulDiv
    /\ OutputsAreRegs(2)
    /\ IF Cur.name \in {"div", "divu"} /\ IsZero(Divisor(Cur.name, Arg[4]))
       THEN Raise("ZeroDivisionError")
       ELSE LET r == MulDivValue(Cur.name, Arg[3], Arg[4])
            IN  /\ regs' = [[regs EXCEPT ![Cur.args[1].reg] = r[1]]
                                  EXCEPT ![Cur.args[2].reg] = r[2]]
                /\ isp' = I(Cur.isp)
                /\ Charge(Cur.name)
                /\ Note(Cur.name)
                /\ UNCHANGED <<pc, err, asm_vars, cpu, callstack, stack, heap, result,
                               stdin, stdout, calls>>

LoadWidth(instr) ==
    CASE instr \in {"lb", "lbu"} -> 1
      [] instr \in {"ls", "lsu"} -> 2
      [] instr \in {"li", "liu"} -> 4
      [] instr = "lw"            -> 8

\* The value a load instruction assigns from the loaded x.
LoadValue(instr, x) ==
    IF instr \in {"lb", "ls", "li"} THEN u(twos(x, 8 * LoadWidth(instr))) ELSE x

ExecLoad ==
    /\ Fetched
    /\ Cur.name \in Loads
    /\ OutputsAreRegs(1)
    /\ LET r == load(Arg[2], LoadWidth(Cur.name), cpu.data, stack, heap, stdin)
       IN  IF r.err # ""
           THEN Raise(r.err)
           ELSE /\ regs' = [regs EXCEPT ![Cur.args[1].reg] = LoadValue(Cur.name, r.v)]
                /\ stdin' = r.stdin
                /\ isp' = I(Cur.isp)
                /\ Charge(Cur.name)
                /\ Note(Cur.name)
                /\ UNCHANGED <<pc, err, asm_vars, cpu, callstack, stack, heap, result,
                               stdout, calls>>

StoreWidth(instr) ==
    CASE instr = "sb" -> 1 [] instr = "ss" -> 2 [] instr = "si" -> 4 [] instr = "sw" -> 8

\* A store to heap or stack stays within MaxMem bytes of the segment.
StoreInModel(a, width) ==
    \/ a = StdioAddr
    \/ width = 2
    \/ IntLe(DataBase, a)
    \/ IsSmall(StoreOffset(a)) /\ ToNat(StoreOffset(a)) + width <= MaxMem

ExecStore ==
    /\ Fetched
    /\ Cur.name \in Stores
    /\ StoreInModel(Arg[1], StoreWidth(Cur.name))
    /\ LET r == store(Arg[1], Arg[2], StoreWidth(Cur.name), stack, heap, stdout)
       IN  IF r.err # ""
           THEN Raise(r.err)
           ELSE /\ stack' = r.stack
                /\ heap' = r.heap
                /\ stdout' = r.stdout
                /\ isp' = I(Cur.isp)
                /\ Charge(Cur.name)
                /\ Note(Cur.name)
                /\ UNCHANGED <<pc, err, asm_vars, cpu, regs, callstack, result, stdin,
                               calls>>

\* Values random.randrange(1 << 64) is let to return.
RandValues == {I(0), I(1), IntSub(P2(64), I(1))}

ExecRand ==
    /\ Fetched
    /\ Cur.name = "rand"
    /\ OutputsAreRegs(1)
    /\ \E v \in RandValues : regs' = [regs EXCEPT ![Cur.args[1].reg] = v]
    /\ isp' = I(Cur.isp)
    /\ Charge(Cur.name)
    /\ Note(Cur.name)
    /\ UNCHANGED <<pc, err, asm_vars, cpu, callstack, stack, heap, result, stdin, stdout,
                   calls>>

ExecJump ==
    /\ Fetched
    /\ Cur.name \in {"jz", "jnz"}
    /\ isp' = IF (Cur.name = "jz") = IsZero(Arg[2]) THEN Arg[1] ELSE I(Cur.isp)
    /\ Charge(Cur.name)
    /\ Note(Cur.name)
    /\ UNCHANGED <<pc, err, asm_vars, cpu, regs, callstack, stack, heap, result, stdin,
                   stdout, calls>>

ExecCall ==
    /\ Fetched
    /\ Cur.name = "call"
    /\ callstack' = Append(callstack, [isp |-> I(Cur.isp), regs |-> regs])
    /\ isp' = Arg[1]
    /\ Charge(Cur.name)
    /\ Note(Cur.name)
    /\ calls' = Append(calls, [regs |-> regs, at |-> ToNat(isp)])
    /\ UNCHANGED <<pc, err, asm_vars, cpu, regs, stack, heap, result, stdin, stdout>>

\* A ret that restores nothing: the register file stays as the callee left it.
RetRegsKeepCallee(old_regs, args) == regs

\* old_regs.update({k: self.regs[k] for k in args})
RetRegs(old_regs, args) ==
    [k \in RegNames |-> IF \E i \in 1..Len(args) : args[i] = Reg(k)
                        THEN regs[k] ELSE old_regs[k]]

\* A ret that, on an empty call stack, completes as a no-op.
ExecRetOnEmptyContinues ==
    /\ Fetched
    /\ Cur.name = "ret"
    /\ callstack' = SubSeq(callstack, 1, Len(callstack) - 1)
    /\ isp' = IF callstack = <<>> THEN I(Cur.isp) ELSE callstack[Len(callstack)].isp
    /\ regs' = IF callstack = <<>> THEN regs
                ELSE RetRegs(callstack[Len(callstack)].regs, Cur.args)
    /\ executed' = executed (+) SetToBag({"ret"})
    /\ last' = [name |-> "ret", args |-> Cur.args, at |-> ToNat(isp),
                end |-> Cur.isp, regs |-> regs, vals |-> <<>>, ok |-> TRUE,
                call |-> IF calls = <<>> THEN [regs |-> regs, at |-> 0]
                         ELSE calls[Len(calls)]]
    /\ calls' = SubSeq(calls, 1, Len(calls) - 1)
    /\ UNCHANGED <<pc, err, asm_vars, cpu, stack, heap, cycle_count, result,
                   stdin, stdout>>

ExecRet ==
    /\ Fetched
    /\ Cur.name = "ret"
    /\ IF callstack = <<>>
       THEN Raise("RuntimeError")
       ELSE LET top == callstack[Len(callstack)]
            IN  /\ callstack' = SubSeq(callstack, 1, Len(callstack) - 1)
                /\ isp' = top.isp
                /\ regs' = RetRegs(top.regs, Cur.args)
                /\ executed' = executed (+) SetToBag({"ret"})
                /\ last' = [name |-> "ret", args |-> Cur.args, at |-> ToNat(isp),
                            end |-> Cur.isp, regs |-> regs, vals |-> <<>>, ok |-> TRUE,
                            call |-> calls[Len(calls)]]
                /\ calls' = SubSeq(calls, 1, Len(calls) - 1)
                /\ UNCHANGED <<pc, err, asm_vars, cpu, stack, heap, cycle_count, result,
                               stdin, stdout>>

\* if instr_name == "halt": return instr_args[0]
ExecHalt ==
    /\ Fetched
    /\ Cur.name = "halt"
    /\ pc' = "halted"
    /\ result' = <<Cur.args[1]>>
    /\ isp' = I(Cur.isp)
    /\ executed' = executed (+) SetToBag({"halt"})
    /\ last' = [name |-> "halt", args |-> Cur.args, at |-> ToNat(isp), end |-> Cur.isp,
                regs |-> regs, vals |-> <<>>, ok |-> TRUE]
    /\ UNCHANGED <<err, asm_vars, cpu, regs, callstack, stack, heap, cycle_count, stdin,
                   stdout, calls>>

\* The decoder itself fails (an immediate past the end, an id or a descriptor
\* outside its table).
DecodeFault ==
    /\ Running
    /\ InProgram
    /\ Cur.err # ""
    /\ pc' = "error"
    /\ err' = Cur.err
    /\ isp' = I(Cur.isp)
    /\ UNCHANGED <<asm_vars, cpu, regs, callstack, stack, heap, cycle_count, result,
                   stdin, stdout, executed, last, calls>>

\* A run that returns 0 when the instruction pointer leaves the program.
ReturnOutside ==
    /\ Running
    /\ ~InProgram
    /\ pc' = "halted"
    /\ result' = <<Imm(I(0))>>
    /\ UNCHANGED <<err, asm_vars, cpu, isp, regs, callstack, stack, heap, cycle_count,
                   stdin, stdout, executed, last, calls>>

\* raise RuntimeError("Instruction pointer outside of executable memory!")
RaiseOutside ==
    /\ Running
    /\ ~InProgram
    /\ pc' = "error"
    /\ err' = "RuntimeError"
    /\ UNCHANGED <<asm_vars, cpu_vars>>

\* ------------------------------------------------------------------------
\* Assembler: source lines and preprocess (src/assemble.py)
\* ------------------------------------------------------------------------

\* A logical line after continuation joining and comment stripping.
LabelLine(ident) == [kind |-> "label", ident |-> ident]

AssignLine(ident, expr) == [kind |-> "assign", ident |-> ident, expr |-> expr]

InstrLine(ident, args) == [kind |-> "instr", ident |-> ident, args |-> args]

CommentLine == [kind |-> "comment"]

\* An operand expression: a name of the environment, or a literal value.
Name(ident) == [e |-> "name", ident |-> ident]

Lit(val) == [e |-> "lit", val |-> val]

\* Data payloads: text (code points), bytes, a tuple of ints.
Str(codes) == [str |-> codes]

BytesLit(b) == [bytes |-> b]

Tuple(ints) == [tuple |-> ints]

\* The environment preprocess starts from (the registers; the math names
\* bind no operand and are left out).
InitialVariables == [c \in RegNames |-> Reg(c)]

\* eval(expr, variables): [err, val].
Eval(expr, env) ==
    IF expr.e = "lit" THEN [err |-> "", val |-> expr.val]
    ELSE IF expr.ident \in DOMAIN env THEN [err |-> "", val |-> env[expr.ident]]
    ELSE [err |-> "NameError", val |-> Imm(I(0))]

\* -2**63 <= n < 2**64
InRange64(n) == IntLe(IntNeg(P2(63)), n) /\ IntLt(n, P2(64))

\* A label pass that lets a second definition of a label replace the first.
RECURSIVE LabelPassNoDuplicateCheck(_, _, _, _)
LabelPassNoDuplicateCheck(ls, i, env, num_instructions) ==
    IF i > Len(ls) THEN [err |-> "", variables |-> env]
    ELSE LET l == ls[i]
         IN  CASE l.kind = "comment" ->
                    LabelPassNoDuplicateCheck(ls, i + 1, env, num_instructions)
               [] l.kind = "label" ->
                    LabelPassNoDuplicateCheck(ls, i + 1,
                        (l.ident :> Label(I(num_instructions), l.ident)) @@ env,
                        num_instructions)
               [] l.kind = "assign" ->
                    LabelPassNoDuplicateCheck(ls, i + 1, env, num_instructions)
               [] l.kind = "instr" ->
                    LabelPassNoDuplicateCheck(ls, i + 1, env, num_instructions + 1)

\* The label pass of preprocess: [err, variables].
RECURSIVE LabelPass(_, _, _, _)
LabelPass(ls, i, env, num_instructions) ==
    IF i > Len(ls) THEN [err |-> "", variables |-> env]
    ELSE LET l == ls[i]
         IN  CASE l.kind = "comment" -> LabelPass(ls, i + 1, env, num_instructions)
               [] l.kind = "label" ->
                    IF l.ident \in DOMAIN env /\ IsLabel(env[l.ident])
                    THEN [err |-> "SyntaxError", variables |-> env]
                    ELSE LabelPass(ls, i + 1,
                                   (l.ident :> Label(I(num_instructions), l.ident)) @@ env,
                                   num_instructions)
               [] l.kind = "assign" -> LabelPass(ls, i + 1, env, num_instructions)
               [] l.kind = "instr" -> LabelPass(ls, i + 1, env, num_instructions + 1)

\* check_instr_arguments: "" when the instruction is accepted.
check_instr_arguments(instr, args) ==
    IF instr = "ret"
    THEN (IF \A i \in 1..Len(args) : IsReg(args[i]) THEN "" ELSE "SyntaxError")
    ELSE IF instr \notin KnownInstr \ {"ret"} THEN "SyntaxError"
    ELSE LET sig == instr_signatures(instr)
         IN  IF sig[1] + sig[2] # Len(args) THEN "SyntaxError"
             ELSE IF ~ \A i \in 1..sig[1] : IsReg(args[i]) THEN "SyntaxError"
             ELSE IF ~ \A i \in 1..Len(args) :
                         \/ IsReg(args[i]) \/ IsLabel(args[i]) \/ IsData(args[i])
                         \/ IsInt(args[i]) /\ InRange64(args[i].v)
                  THEN "SyntaxError"
             ELSE IF \E i \in 1..Len(args) :
                         /\ IsData(args[i])
                         /\ "tuple" \in DOMAIN args[i].data
                         /\ \E j \in 1..Len(args[i].data.tuple) :
                                ~InRange64(args[i].data.tuple[j])
                  THEN "SyntaxError"
             ELSE IF instr \in {"sz", "snz"} /\ ~IsInt(args[2]) THEN "SyntaxError"
             ELSE ""

Instr(debug_line, instr, args) == [debug_line |-> debug_line, instr |-> instr, args |-> args]

\* The instruction pass of preprocess: [err, variables, instructions].
RECURSIVE InstrPass(_, _, _, _)
InstrPass(ls, i, env, out) ==
    IF i > Len(ls) THEN [err |-> "", variables |-> env, instructions |-> out]
    ELSE LET l == ls[i]
         IN  CASE l.kind \in {"comment", "label"} -> InstrPass(ls, i + 1, env, out)
               [] l.kind = "assign" ->
                    IF l.ident \in DOMAIN env /\ IsLabel(env[l.ident])
                    THEN [err |-> "SyntaxError", variables |-> env, instructions |-> out]
                    ELSE LET v == Eval(l.expr, env)
                         IN  IF v.err # ""
                             THEN [err |-> v.err, variables |-> env, instructions |-> out]
                             ELSE InstrPass(ls, i + 1, (l.ident :> v.val) @@ env, out)
               [] l.kind = "instr" ->
                    LET vs == [k \in 1..Len(l.args) |-> Eval(l.args[k], env)]
                        args == [k \in 1..Len(vs) |-> vs[k].val]
                    IN  IF \E k \in 1..Len(vs) : vs[k].err # ""
                        THEN [err |-> "NameError", variables |-> env, instructions |-> out]
                        ELSE IF check_instr_arguments(l.ident, args) # ""
                        THEN [err |-> "SyntaxError", variables |-> env,
                              instructions |-> out]
                        ELSE InstrPass(ls, i + 1, env,
                                       Append(out, Instr(i - 1, l.ident, args)))

\* preprocess(lines): [err, variables, instructions].
preprocess(ls) ==
    LET lp == LabelPass(ls, 1, InitialVariables, 0)
    IN  IF lp.err # "" THEN [err |-> lp.err, variables |-> lp.variables,
                             instructions |-> <<>>]
        ELSE InstrPass(ls, 1, lp.variables, <<>>)

\* ------------------------------------------------------------------------
\* Assembler: Data, the pooler, the pseudo-instructions
\* ------------------------------------------------------------------------

\* utf-8 of one code point below 2048.
Utf8(c) == IF c < 128 THEN <<c>> ELSE <<192 + (c \div 64), 128 + (c % 64)>>

RECURSIVE Flatten(_)
Flatten(ss) == IF ss = <<>> THEN <<>> ELSE Head(ss) \o Flatten(Tail(ss))

\* Data.encode
DataEncode(data) ==
    IF "bytes" \in DOMAIN data THEN data.bytes
    ELSE IF "str" \in DOMAIN data
    THEN Flatten([i \in 1..Len(data.str) |-> Utf8(data.str[i])]) \o <<0>>
    ELSE Flatten([i \in 1..Len(data.tuple) |-> Bytes(IntMask(data.tuple[i], 64), 8)])

\* A pooler that appends every literal anew, seen before or not.
RECURSIVE PoolArgsNoSharing(_, _, _, _)
PoolArgsNoSharing(args, i, seg, offs) ==
    IF i > Len(args) THEN [args |-> args, data_segment |-> seg, data_offsets |-> offs]
    ELSE IF ~IsData(args[i]) THEN PoolArgsNoSharing(args, i + 1, seg, offs)
    ELSE LET d     == args[i].data
             addr  == IntAdd(I(Len(seg)), DataBase)
             offs2 == (d :> addr) @@ offs
         IN  PoolArgsNoSharing([args EXCEPT ![i] = Imm(addr)], i + 1,
                               seg \o DataEncode(d), offs2)

\* The data substitution pass over the operands of one instruction:
\* [args, data_segment, data_offsets].
RECURSIVE PoolArgs(_, _, _, _)
PoolArgs(args, i, seg, offs) ==
    IF i > Len(args) THEN [args |-> args, data_segment |-> seg, data_offsets |-> offs]
    ELSE IF ~IsData(args[i]) THEN PoolArgs(args, i + 1, seg, offs)
    ELSE LET d     == args[i].data
             seg2  == IF d \in DOMAIN offs THEN seg ELSE seg \o DataEncode(d)
             offs2 == IF d \in DOMAIN offs THEN offs
                      ELSE (d :> IntAdd(I(Len(seg)), DataBase)) @@ offs
         IN  PoolArgs([args EXCEPT ![i] = Imm(offs2[d])], i + 1, seg2, offs2)

\* The data substitution pass: [instructions, data_segment, data_offsets].
RECURSIVE PoolInstrs(_, _, _, _)
PoolInstrs(ins, k, seg, offs) ==
    IF k > Len(ins) THEN [instructions |-> ins, data_segment |-> seg, data_offsets |-> offs]
    ELSE LET r == PoolArgs(ins[k].args, 1, seg, offs)
         IN  PoolInstrs([ins EXCEPT ![k].args = r.args], k + 1, r.data_segment,
                        r.data_offsets)

Reverse(sq) == [i \in 1..Len(sq) |-> sq[Len(sq) + 1 - i]]

\* A translation whose pop loads before it moves the pointer down.
translate_pseudo_instr_pop_loads_first(instr_nr, instr, args) ==
    CASE instr \in {"ge", "geq", "geu", "gequ"} ->
            << <<CASE instr = "ge" -> "le" [] instr = "geq" -> "leq"
                   [] instr = "geu" -> "leu" [] instr = "gequ" -> "lequ",
                 SubSeq(args, 1, 1) \o Reverse(SubSeq(args, 2, Len(args)))>> >>
      [] instr = "mov" -> << <<"add", <<args[1], args[2], Imm(I(0))>> >> >>
      [] instr = "inc" -> << <<"add", <<args[1], args[1], Imm(I(1))>> >> >>
      [] instr = "dec" -> << <<"add", <<args[1], args[1], Imm(I(-1))>> >> >>
      [] instr = "neg" -> << <<"sub", <<args[1], Imm(I(0)), args[1]>> >> >>
      [] instr = "jmp" -> << <<"jz", <<args[1], Imm(I(0))>> >> >>
      [] instr = "sz"  ->
            << <<"jz", <<Label(IntAdd(IntAdd(I(instr_nr), args[2].v), I(1)), ""),
                         args[1]>> >> >>
      [] instr = "snz" ->
            << <<"jnz", <<Label(IntAdd(IntAdd(I(instr_nr), args[2].v), I(1)), ""),
                          args[1]>> >> >>
      [] instr = "push" ->
            << <<"sw", <<args[1], args[2]>> >>,
               <<"add", <<args[1], args[1], Imm(I(8))>> >> >>
      [] instr = "pop" ->
            << <<"lw", <<args[1], args[2]>> >>,
               <<"sub", <<args[2], args[2], Imm(I(8))>> >> >>
      [] OTHER -> << <<instr, args>> >>

\* translate_pseudo_instr: the real instructions of one logical instruction.
translate_pseudo_instr(instr_nr, instr, args) ==
    CASE instr \in {"ge", "geq", "geu", "gequ"} ->
            << <<CASE instr = "ge" -> "le" [] instr = "geq" -> "leq"
                   [] instr = "geu" -> "leu" [] instr = "gequ" -> "lequ",
                 SubSeq(args, 1, 1) \o Reverse(SubSeq(args, 2, Len(args)))>> >>
      [] instr = "mov" -> << <<"add", <<args[1], args[2], Imm(I(0))>> >> >>
      [] instr = "inc" -> << <<"add", <<args[1], args[1], Imm(I(1))>> >> >>
      [] instr = "dec" -> << <<"add", <<args[1], args[1], Imm(I(-1))>> >> >>
      [] instr = "neg" -> << <<"sub", <<args[1], Imm(I(0)), args[1]>> >> >>
      [] instr = "jmp" -> << <<"jz", <<args[1], Imm(I(0))>> >> >>
      [] instr = "sz"  ->
            << <<"jz", <<Label(IntAdd(IntAdd(I(instr_nr), args[2].v), I(1)), ""),
                         args[1]>> >> >>
      [] instr = "snz" ->
            << <<"jnz", <<Label(IntAdd(IntAdd(I(instr_nr), args[2].v), I(1)), ""),
                          args[1]>> >> >>
      [] instr = "push" ->
            << <<"sw", <<args[1], args[2]>> >>,
               <<"add", <<args[1], args[1], Imm(I(8))>> >> >>
      [] instr = "pop" ->
            << <<"sub", <<args[2], args[2], Imm(I(8))>> >>,
               <<"lw", <<args[1], args[2]>> >> >>
      [] OTHER -> << <<instr, args>> >>

\* An expansion whose table maps each logical index to itself.
RECURSIVE ExpandLogicalNumbers(_, _, _, _)
ExpandLogicalNumbers(ins, k, out, nrs) ==
    IF k > Len(ins) THEN [no_pseudo |-> out, instr_nrs |-> nrs]
    ELSE LET tr == translate_pseudo_instr(k - 1, ins[k].instr, ins[k].args)
         IN  ExpandLogicalNumbers(ins, k + 1,
                    out \o [j \in 1..Len(tr) |-> Instr(ins[k].debug_line, tr[j][1], tr[j][2])],
                    ((k - 1) :> (k - 1)) @@ nrs)

\* "Translate pseudo-instructions": [no_pseudo, instr_nrs].
RECURSIVE Expand(_, _, _, _)
Expand(ins, k, out, nrs) ==
    IF k > Len(ins) THEN [no_pseudo |-> out, instr_nrs |-> nrs]
    ELSE LET tr == translate_pseudo_instr(k - 1, ins[k].instr, ins[k].args)
         IN  Expand(ins, k + 1,
                    out \o [j \in 1..Len(tr) |-> Instr(ins[k].debug_line, tr[j][1], tr[j][2])],
                    ((k - 1) :> Len(out)) @@ nrs)

\* ------------------------------------------------------------------------
\* Assembler: Instr.size, Instr.encode, label substitution, emission
\* ------------------------------------------------------------------------

\* -2**(bits-1) <= n < 2**(bits-1)
FitsSigned(n, bits) == IntLe(IntNeg(P2(bits - 1)), n) /\ IntLt(n, P2(bits - 1))

\* A size that charges one byte for a zero immediate.
SizeOfZeroAsByte(arg) ==
    IF IsReg(arg) THEN 0
    ELSE IF IsLabel(arg) THEN 4
    ELSE IF FitsSigned(arg.v, 8) THEN 1
    ELSE IF FitsSigned(arg.v, 16) THEN 2
    ELSE IF FitsSigned(arg.v, 32) THEN 4
    ELSE 8

\* Instr.size: what one operand adds to n.
SizeOf(arg) ==
    IF IsReg(arg) THEN 0
    ELSE IF IsLabel(arg) THEN 4
    ELSE IF IsZero(arg.v) THEN 0
    ELSE IF FitsSigned(arg.v, 8) THEN 1
    ELSE IF FitsSigned(arg.v, 16) THEN 2
    ELSE IF FitsSigned(arg.v, 32) THEN 4
    ELSE 8

RECURSIVE Sum(_)
Sum(sq) == IF sq = <<>> THEN 0 ELSE Head(sq) + Sum(Tail(sq))

\* Instr.size
size(instr) ==
    IF instr.instr = "ret" THEN 4
    ELSE 4 + Sum([i \in 1..Len(instr.args) |-> SizeOf(instr.args[i])])

\* An encoder that picks the width by the unsigned ranges [0, 2^8), [0, 2^16),
\* [0, 2^32).
EncodeArgUnsigned(arg) ==
    IF IsReg(arg) THEN [flag |-> 5 + LetterIndex(arg.reg), imm |-> <<>>]
    ELSE IF IsLabel(arg) THEN [flag |-> 3, imm |-> Bytes(IntMask(arg.offset, 32), 4)]
    ELSE IF IsZero(arg.v) THEN [flag |-> 0, imm |-> <<>>]
    ELSE IF ~arg.v.neg /\ IntLt(arg.v, P2(8))
    THEN [flag |-> 1, imm |-> Bytes(IntMask(arg.v, 8), 1)]
    ELSE IF ~arg.v.neg /\ IntLt(arg.v, P2(16))
    THEN [flag |-> 2, imm |-> Bytes(IntMask(arg.v, 16), 2)]
    ELSE IF ~arg.v.neg /\ IntLt(arg.v, P2(32))
    THEN [flag |-> 3, imm |-> Bytes(IntMask(arg.v, 32), 4)]
    ELSE [flag |-> 4, imm |-> Bytes(IntMask(arg.v, 64), 8)]

\* Instr.encode: the descriptor and the immediate bytes of one operand.
EncodeArg(arg) ==
    IF IsReg(arg) THEN [flag |-> 5 + LetterIndex(arg.reg), imm |-> <<>>]
    ELSE IF IsLabel(arg) THEN [flag |-> 3, imm |-> Bytes(IntMask(arg.offset, 32), 4)]
    ELSE IF IsZero(arg.v) THEN [flag |-> 0, imm |-> <<>>]
    ELSE IF FitsSigned(arg.v, 8) THEN [flag |-> 1, imm |-> Bytes(IntMask(arg.v, 8), 1)]
    ELSE IF FitsSigned(arg.v, 16) THEN [flag |-> 2, imm |-> Bytes(IntMask(arg.v, 16), 2)]
    ELSE IF FitsSigned(arg.v, 32) THEN [flag |-> 3, imm |-> Bytes(IntMask(arg.v, 32), 4)]
    ELSE [flag |-> 4, imm |-> Bytes(IntMask(arg.v, 64), 8)]

\* The flag word of flags[::-1] folded five bits at a time.
RECURSIVE PackFlags(_)
PackFlags(flags) == IF flags = <<>> THEN 0 ELSE Head(flags) + 32 * PackFlags(Tail(flags))

\* The ret bitmap: bit i set when letter i of a..y is among the operands.
RECURSIVE RetFlag(_, _)
RetFlag(args, i) ==
    IF i > 25 THEN 0
    ELSE (IF \E k \in 1..Len(args) : args[k] = Reg(ascii_lowercase[i]) THEN 1 ELSE 0)
         + 2 * RetFlag(args, i + 1)

\* struct.pack("<I", instr_id | (instr_flag << 7))
PackWord(instr_id, instr_flag) == Bytes(IntAdd(I(instr_id), IntShl(I(instr_flag), 7)), 4)

\* Instr.encode
encode(instr) ==
    IF instr.instr = "ret"
    THEN PackWord(instr_ids("ret"), RetFlag(instr.args, 1))
    ELSE LET enc == [i \in 1..Len(instr.args) |-> EncodeArg(instr.args[i])]
         IN  PackWord(instr_ids(instr.instr), PackFlags([i \in 1..Len(enc) |-> enc[i].flag]))
             \o Flatten([i \in 1..Len(enc) |-> enc[i].imm])

\* offsets: [0] and the running sums of the sizes.
RECURSIVE Offsets(_, _, _)
Offsets(ins, k, acc) ==
    IF k > Len(ins) THEN acc
    ELSE Offsets(ins, k + 1, Append(acc, acc[Len(acc)] + size(ins[k])))

\* instr_nrs has the key nr.
HasKey(nrs, nr) == IsSmall(nr) /\ ToNat(nr) \in DOMAIN nrs

\* The label substitution pass over the operands of one instruction:
\* [err, args, labels].
RECURSIVE ResolveArgs(_, _, _, _, _)
ResolveArgs(args, i, offs, nrs, labs) ==
    IF i > Len(args) THEN [err |-> "", args |-> args, labels |-> labs]
    ELSE IF ~IsLabel(args[i]) THEN ResolveArgs(args, i + 1, offs, nrs, labs)
    ELSE IF ~HasKey(nrs, args[i].instr_nr)
    THEN [err |-> "KeyError", args |-> args, labels |-> labs]
    ELSE LET offset == offs[nrs[ToNat(args[i].instr_nr)] + 1]
             arg    == [t |-> "label", instr_nr |-> args[i].instr_nr,
                        name |-> args[i].name, offset |-> I(offset)]
         IN  ResolveArgs([args EXCEPT ![i] = arg], i + 1, offs, nrs,
                         IF args[i].name # "" THEN (args[i].name :> offset) @@ labs
                         ELSE labs)

\* The label substitution pass: [err, no_pseudo, labels].
RECURSIVE Resolve(_, _, _, _, _)
Resolve(ins, k, offs, nrs, labs) ==
    IF k > Len(ins) THEN [err |-> "", no_pseudo |-> ins, labels |-> labs]
    ELSE LET r == ResolveArgs(ins[k].args, 1, offs, nrs, labs)
         IN  IF r.err # "" THEN [err |-> r.err, no_pseudo |-> ins, labels |-> labs]
             ELSE Resolve([ins EXCEPT ![k].args = r.args], k + 1, offs, nrs, r.labels)

\* "Encode instructions": [instr_stream, positions], positions the values of
\* len(instr_stream) at which the instructions were emitted.
RECURSIVE Emit(_, _, _, _)
Emit(ins, k, stream, pos) ==
    IF k > Len(ins) THEN [instr_stream |-> stream, positions |-> pos]
    ELSE Emit(ins, k + 1, stream \o encode(ins[k]), Append(pos, Len(stream)))

\* struct.pack("<I", len(data_segment)) + data_segment + instr_stream
Binary(seg, stream) == Bytes(I(Len(seg)), 4) \o seg \o stream

\* ------------------------------------------------------------------------
\* The run `assemble.py -r`: assemble step by step, then GolfCPU(binary).run()
\* ------------------------------------------------------------------------

Fail(e) == pc' = "error" /\ err' = e

\* instructions = preprocess(lines)
Preprocess ==
    /\ pc = "preprocess"
    /\ LET r == preprocess(lines)
       IN  /\ variables' = r.variables
           /\ instructions' = r.instructions
           /\ IF r.err # "" THEN Fail(r.err) ELSE pc' = "data" /\ err' = err
    /\ UNCHANGED <<lines, data_segment, data_offsets, no_pseudo, instr_nrs, offsets,
                   labels, positions, binary, cpu_vars>>

\* Data substitution pass.
PoolData ==
    /\ pc = "data"
    /\ LET r == PoolInstrs(instructions, 1, <<>>, <<>>)
       IN  /\ instructions' = r.instructions
           /\ data_segment' = r.data_segment
           /\ data_offsets' = r.data_offsets
    /\ pc' = "pseudo"
    /\ UNCHANGED <<err, lines, variables, no_pseudo, instr_nrs, offsets, labels,
                   positions, binary, cpu_vars>>

\* Translate pseudo-instructions.
TranslatePseudo ==
    /\ pc = "pseudo"
    /\ LET r == Expand(instructions, 1, <<>>, <<>>)
       IN  /\ no_pseudo' = r.no_pseudo
           /\ instr_nrs' = r.instr_nrs
    /\ pc' = "labels"
    /\ UNCHANGED <<err, lines, variables, instructions, data_segment, data_offsets,
                   offsets, labels, positions, binary, cpu_vars>>

\* Label substitution pass.
SubstituteLabels ==
    /\ pc = "labels"
    /\ LET offs == Offsets(no_pseudo, 1, <<0>>)
           r    == Resolve(no_pseudo, 1, offs, instr_nrs, <<>>)
       IN  /\ offsets' = offs
           /\ no_pseudo' = r.no_pseudo
           /\ labels' = r.labels
           /\ IF r.err # "" THEN Fail(r.err) ELSE pc' = "encode" /\ err' = err
    /\ UNCHANGED <<lines, variables, instructions, data_segment, data_offsets, instr_nrs,
                   positions, binary, cpu_vars>>

\* Encode instructions; return the binary.
EncodeAll ==
    /\ pc = "encode"
    /\ LET r == Emit(no_pseudo, 1, <<>>, <<>>)
       IN  /\ positions' = r.positions
           /\ binary' = Binary(data_segment, r.instr_stream)
    /\ pc' = "construct"
    /\ UNCHANGED <<err, lines, variables, instructions, data_segment, data_offsets,
                   no_pseudo, instr_nrs, offsets, labels, cpu_vars>>

\* The register file GolfCPU.__init__ builds.
InitialRegs == [k \in RegNames |-> IF k = "z" THEN StackBase ELSE I(0)]

\* GolfCPU.__init__(binary)
Construct ==
    /\ pc = "construct"
    /\ LET data_len == ToNat(MkInt(FALSE, SubSeq(binary, 1, 4)))
       IN  cpu' = [data |-> SubSeq(binary, 5, Min(4 + data_len, Len(binary))),
                   instructions |-> SubSeq(binary, 5 + data_len, Len(binary))]
    /\ isp' = I(0)
    /\ regs' = InitialRegs
    /\ callstack' = <<>>
    /\ stack' = <<>>
    /\ heap' = <<>>
    /\ cycle_count' = EmptyBag
    /\ pc' = "run"
    /\ UNCHANGED <<err, asm_vars, result, stdin, stdout, executed, last, calls>>

\* ------------------------------------------------------------------------
\* The source programs the model runs
\* ------------------------------------------------------------------------

R(c) == Name(c)

N(n) == Lit(Imm(I(n)))

V(x) == Lit(Imm(x))

D(payload) == Lit(Data(payload))

\* Integers at the edges of the encoder's width classes.
EdgeInts ==
    { I(0), I(1), I(-1), I(127), I(128), I(-128), I(-129), I(32767), I(32768),
      I(-32768), I(-32769), IntSub(P2(31), I(1)), P2(31), IntNeg(P2(31)),
      IntSub(IntNeg(P2(31)), I(1)), IntSub(P2(63), I(1)), P2(63), IntNeg(P2(63)),
      IntSub(P2(64), I(1)) }

Hi == Str(<<104, 105>>)

\* mov a, 42 / halt a
ProgMovHalt ==
    << InstrLine("mov", <<R("a"), N(42)>>), InstrLine("halt", <<R("a")>>) >>

\* mov a, 3 / loop: dec a / snz a, -2 / halt 0
ProgLoop ==
    << InstrLine("mov", <<R("a"), N(3)>>), LabelLine("loop"),
       InstrLine("dec", <<R("a")>>), InstrLine("snz", <<R("a"), N(-2)>>),
       InstrLine("halt", <<N(0)>>) >>

\* push z, 7 / push z, -1 / pop a, z / pop b, z / halt a
ProgPushPop ==
    << InstrLine("push", <<R("z"), N(7)>>), InstrLine("push", <<R("z"), N(-1)>>),
       InstrLine("pop", <<R("a"), R("z")>>), InstrLine("pop", <<R("b"), R("z")>>),
       InstrLine("halt", <<R("a")>>) >>

ProgMul ==
    << InstrLine("mulu", <<R("a"), R("b"), V(IntSub(P2(64), I(1))), N(2)>>),
       InstrLine("mul", <<R("c"), R("d"), N(-1), N(2)>>),
       InstrLine("div", <<R("e"), R("f"), N(7), N(-2)>>),
       InstrLine("divu", <<R("g"), R("h"), N(7), N(2)>>) >>

ProgDivZero ==
    << InstrLine("div", <<R("i"), R("j"), N(1), N(0)>>), InstrLine("halt", <<N(0)>>) >>

ProgShift ==
    << InstrLine("mov", <<R("a"), V(P2(63))>>),
       InstrLine("sar", <<R("b"), R("a"), N(1)>>),
       InstrLine("shr", <<R("c"), R("a"), N(1)>>),
       InstrLine("shr", <<R("d"), R("a"), V(P2(63))>>),
       InstrLine("shl", <<R("e"), R("a"), N(-63)>>),
       InstrLine("not", <<R("f"), R("e")>>),
       InstrLine("geu", <<R("g"), R("a"), R("b")>>),
       InstrLine("neg", <<R("b")>>),
       InstrLine("shl", <<R("h"), N(1), N(64)>>),
       InstrLine("or", <<R("i"), R("h"), N(5)>>),
       InstrLine("halt", <<N(0)>>) >>

\* Two uses of data("hi"), then other literals.
ProgData ==
    << InstrLine("lbu", <<R("a"), D(Hi)>>), InstrLine("lbu", <<R("b"), D(Hi)>>),
       InstrLine("lw", <<R("c"), D(Tuple(<<I(1), I(-2)>>))>>),
       InstrLine("lb", <<R("d"), D(BytesLit(<<255, 105, 0>>))>>),
       InstrLine("add", <<R("e"), D(Tuple(<<I(1), I(-2)>>)), D(Hi)>>),
       InstrLine("sb", <<D(Hi), N(1)>>) >>

\* Nested calls returning registers.
ProgCalls ==
    << InstrLine("mov", <<R("a"), N(1)>>),
       InstrLine("mov", <<R("b"), N(2)>>),
       InstrLine("call", <<Name("ff")>>),
       InstrLine("halt", <<R("a")>>),
       LabelLine("ff"),
       InstrLine("mov", <<R("a"), N(5)>>),
       InstrLine("mov", <<R("c"), V(P2(40))>>),
       InstrLine("call", <<Name("gg")>>),
       InstrLine("ret", <<R("a")>>),
       LabelLine("gg"),
       InstrLine("mov", <<R("a"), N(9)>>),
       InstrLine("mov", <<R("b"), N(-8)>>),
       InstrLine("mov", <<R("z"), N(3)>>),
       InstrLine("ret", <<R("z"), R("b")>>) >>

\* Recursion: ff calls itself until c is 2.
ProgRecurse ==
    << InstrLine("call", <<Name("ff")>>),
       InstrLine("halt", <<R("c")>>),
       LabelLine("ff"),
       InstrLine("inc", <<R("c")>>),
       InstrLine("cmp", <<R("d"), R("c"), N(2)>>),
       InstrLine("snz", <<R("d"), N(1)>>),
       InstrLine("call", <<Name("ff")>>),
       InstrLine("inc", <<R("e")>>),
       InstrLine("ret", <<R("c"), R("e")>>) >>

\* A call that returns onto a ret, memory and registers in use.
ProgRetOnEmpty ==
    << InstrLine("sb", <<N(3), N(9)>>),
       InstrLine("push", <<R("z"), N(2)>>),
       InstrLine("mov", <<R("a"), N(7)>>),
       InstrLine("call", <<Name("ff")>>),
       InstrLine("ret", <<R("a")>>),
       LabelLine("ff"),
       InstrLine("mov", <<R("b"), N(1)>>),
       InstrLine("ret", <<R("b")>>) >>

\* Callees that move z and return with z listed, alone and beside y.
ProgRetZ ==
    << InstrLine("push", <<R("z"), N(1)>>),
       InstrLine("call", <<Name("ff")>>),
       InstrLine("call", <<Name("gg")>>),
       InstrLine("halt", <<N(0)>>),
       LabelLine("ff"),
       InstrLine("push", <<R("z"), N(2)>>),
       InstrLine("mov", <<R("y"), N(4)>>),
       InstrLine("ret", <<R("z"), R("y")>>),
       LabelLine("gg"),
       InstrLine("mov", <<R("z"), N(5)>>),
       InstrLine("ret", <<R("z")>>) >>

\* A label after the last instruction.
ProgEndLabel ==
    << InstrLine("jmp", <<Name("end")>>), LabelLine("end") >>

\* Labels and skips across push and pop.
ProgSkips ==
    << LabelLine("start"),
       InstrLine("push", <<R("z"), N(1)>>),
       InstrLine("jmp", <<Name("mid")>>),
       InstrLine("pop", <<R("a"), R("z")>>),
       LabelLine("mid"),
       InstrLine("sz", <<R("a"), N(1)>>),
       InstrLine("push", <<R("z"), N(2)>>),
       InstrLine("snz", <<R("b"), N(-6)>>),
       InstrLine("halt", <<N(0)>>) >>

\* A backward skip that re-enters a push and a pop.
ProgSkipBack ==
    << InstrLine("push", <<R("z"), N(5)>>),
       InstrLine("mov", <<R("c"), N(2)>>),
       InstrLine("push", <<R("z"), N(1)>>),
       InstrLine("pop", <<R("a"), R("z")>>),
       InstrLine("dec", <<R("c")>>),
       InstrLine("snz", <<R("c"), N(-4)>>),
       InstrLine("halt", <<N(0)>>) >>

\* Stores beyond the end, inside and across the end of heap and stack.
ProgGrow ==
    << InstrLine("sw", <<N(8), N(-1)>>),
       InstrLine("sb", <<N(2), N(7)>>),
       InstrLine("si", <<N(14), N(5)>>),
       InstrLine("si", <<N(20), N(-2)>>),
       InstrLine("sb", <<V(IntAdd(StackBase, I(3))), N(1)>>),
       InstrLine("sw", <<R("z"), N(-1)>>),
       InstrLine("halt", <<N(0)>>) >>

\* mov r, start, then a push of each value, then as many pops into a, b, c.
ProgPushesPops(r, start, vs) ==
    << InstrLine("mov", <<R(r), V(start)>>) >>
    \o [i \in 1..Len(vs) |-> InstrLine("push", <<R(r), V(vs[i])>>)]
    \o [j \in 1..Len(vs) |-> InstrLine("pop", <<R(<<"a", "b", "c">>[j]), R(r)>>)]
    \o << InstrLine("halt", <<N(0)>>) >>

PushedValues ==
    { <<I(7)>>, <<I(-1)>>, <<I(7), I(-1)>>, <<I(0), P2(63)>>, <<I(7), I(-1), I(300)>>,
      <<I(5), I(5), I(9)>> }

PushPopPrograms ==
    { ProgPushesPops(r, start, vs) :
        r \in {"z", "h"}, start \in {I(0), StackBase}, vs \in PushedValues }
    \cup
    { ProgPushesPops(r, start, vs) :
        r \in {"z", "h"}, start \in {I(5), IntAdd(StackBase, I(3))},
        vs \in { w \in PushedValues : Len(w) <= 2 } }
    \cup
    { << InstrLine("push", <<R("z"), N(7)>>), InstrLine("pop", <<R("a"), R("z")>>),
         InstrLine("halt", <<R("a")>>) >> }

\* A skip to the end of the program, and one before its start.
ProgSkipEnd == << InstrLine("sz", <<R("a"), N(0)>>) >>

ProgSkipBefore == << InstrLine("snz", <<R("a"), N(-2)>>), InstrLine("halt", <<N(0)>>) >>

\* A jump into the middle of an instruction.
ProgGarbage == << InstrLine("jmp", <<N(1)>>) >>

ProgRand == << InstrLine("rand", <<R("a")>>), InstrLine("halt", <<R("a")>>) >>

ProgSpin == << LabelLine("loop"), InstrLine("jmp", <<Name("loop")>>) >>

\* Echo one character of standard input.
ProgEcho ==
    << InstrLine("lw", <<R("a"), N(-1)>>), InstrLine("sw", <<N(-1), R("a")>>),
       InstrLine("lb", <<R("b"), N(-1)>>) >>

\* An assignment, then a use of its name.
ProgAssign ==
    << AssignLine("val", N(300)), CommentLine,
       InstrLine("mov", <<R("a"), Name("val")>>),
       InstrLine("halt", <<Name("val")>>) >>

ProgDuplicate == << LabelLine("ll"), InstrLine("halt", <<N(0)>>), LabelLine("ll") >>

ProgOverwrite == << AssignLine("ll", N(1)), LabelLine("ll"), InstrLine("halt", <<N(0)>>) >>

\* Assignments to a label defined earlier, to an alias of a label, to a plain
\* name twice; a second label definition right after the first.
ProgOverwriteAfter ==
    << LabelLine("ll"), AssignLine("ll", N(1)), InstrLine("halt", <<N(0)>>) >>

ProgOverwriteAlias ==
    << LabelLine("ll"), AssignLine("xx", Name("ll")), AssignLine("xx", N(1)),
       InstrLine("halt", <<N(0)>>) >>

ProgReassign ==
    << AssignLine("val", N(1)), AssignLine("val", N(2)),
       InstrLine("mov", <<R("a"), Name("val")>>), InstrLine("halt", <<N(0)>>) >>

ProgAlias ==
    << AssignLine("xx", Name("ll")), InstrLine("jmp", <<Name("xx")>>),
       InstrLine("mov", <<R("a"), N(1)>>), LabelLine("ll"),
       InstrLine("halt", <<N(0)>>) >>

ProgDuplicateAdjacent == << LabelLine("ll"), LabelLine("ll"), InstrLine("halt", <<N(0)>>) >>

ProgUnknown == << InstrLine("nop", <<>>) >>

\* A store of v at address a of width w, then the zero-extending load there.
ProgStoreLoad(st, ld, a, v) ==
    << InstrLine(st, <<V(a), V(v)>>), InstrLine(ld, <<R("a"), V(a)>>),
       InstrLine("halt", <<N(0)>>) >>

StoreLoadPrograms ==
    { ProgStoreLoad(w[1], w[2], a, v) :
        w \in {<<"sb", "lbu">>, <<"sb", "lb">>, <<"ss", "lsu">>, <<"si", "liu">>,
               <<"si", "li">>, <<"sw", "lw">>},
        a \in {I(0), I(3), StackBase, IntAdd(StackBase, I(5))},
        v \in {I(0), I(200), IntSub(P2(64), I(2))} }

\* Operands of every width class, a register and a label.
ProgWidths ==
    << InstrLine("add", <<R("a"), N(0), N(1)>>),
       InstrLine("add", <<R("b"), N(-129), N(32768)>>),
       InstrLine("sub", <<R("c"), V(P2(31)), V(IntNeg(P2(63)))>>),
       InstrLine("jnz", <<Name("done"), R("y")>>),
       LabelLine("done"),
       InstrLine("halt", <<N(0)>>) >>

\* A load from memory no store has reached: the empty segments, and the
\* end of a one-byte heap and beyond.
FreshLoadPrograms ==
    { << InstrLine(ld, <<R("a"), V(a)>>), InstrLine("halt", <<N(0)>>) >> :
        ld \in Loads, a \in {I(0), I(5), StackBase, IntAdd(StackBase, I(8))} }
    \cup
    { << InstrLine("sb", <<N(0), N(1)>>), InstrLine(ld, <<R("a"), N(a)>>),
         InstrLine("halt", <<N(0)>>) >> :
        ld \in {"lbu", "liu", "lw"}, a \in {1, 9} }

\* A jump to the end offset of the program, and one far beyond it.
JumpOutPrograms == { << InstrLine("jmp", <<N(t)>>) >> : t \in {5, 100} }

\* A store of each width into the data segment, heap and stack in use.
ReadOnlyPrograms ==
    { << InstrLine("sb", <<N(3), N(9)>>), InstrLine("push", <<R("z"), N(7)>>),
         InstrLine(st, <<V(a), R("z")>>), InstrLine("halt", <<N(0)>>) >> :
        st \in Stores,
        a \in {DataBase, IntAdd(DataBase, I(5)), IntSub(P2(64), I(2))} }

\* A load or a store of a width other than 8 at the stdio address.
StdioWidthPrograms ==
    { << InstrLine("sb", <<N(3), N(9)>>), InstrLine(ld, <<R("a"), N(-1)>>),
         InstrLine("halt", <<N(0)>>) >> : ld \in Loads \ {"lw"} }
    \cup
    { << InstrLine("sb", <<N(3), N(9)>>), InstrLine(st, <<N(-1), N(65)>>),
         InstrLine("halt", <<N(0)>>) >> : st \in Stores \ {"sw"} }

\* One instruction over the edge integers, then halt.
EdgePrograms ==
    { << InstrLine("add", <<R("a"), V(v), V(w)>>), InstrLine("halt", <<R("a")>>) >> :
        v \in EdgeInts, w \in EdgeInts }

\* shr and sar of a by b, over the edges of value and count.
ShiftValues == { I(0), I(1), I(5), IntSub(P2(63), I(1)), P2(63), IntSub(P2(64), I(1)) }

ShiftCounts ==
    { I(0), I(1), I(63), I(64), I(65), IntSub(P2(63), I(1)), P2(63), I(-64), I(-8), I(-1) }

ShiftPrograms ==
    { << InstrLine("shr", <<R("c"), V(a), V(b)>>), InstrLine("sar", <<R("d"), V(a), V(b)>>),
         InstrLine("halt", <<N(0)>>) >> : a \in ShiftValues, b \in ShiftCounts }

\* mulu and mul of a by b, over the edges of the 64-bit range.
MulValues ==
    { I(0), I(1), I(2), P2(32), IntSub(P2(63), I(1)), P2(63), IntSub(P2(64), I(1)) }

MulPrograms ==
    { << InstrLine("mulu", <<R("a"), R("b"), V(x), V(y)>>),
         InstrLine("mul", <<R("c"), R("d"), V(x), V(y)>>),
         InstrLine("halt", <<N(0)>>) >> : x \in MulValues, y \in MulValues }
    \cup
    { << InstrLine(ml, <<R("a"), R("a"), N(-1), N(2)>>), InstrLine("halt", <<N(0)>>) >> :
        ml \in {"mul", "mulu"} }

\* A ret of each register list, run with an empty callstack.
RetPrograms ==
    { << InstrLine("ret", [i \in 1..Len(rs) |-> R(rs[i])]) >> :
        rs \in { <<>>, <<"a">>, <<"z">>, <<"b", "a">>, <<"a", "a">>, <<"y", "z", "c">> } }

Programs ==
    { ProgMovHalt, ProgLoop, ProgPushPop, ProgMul, ProgShift, ProgData, ProgCalls,
      ProgRecurse, ProgEndLabel, ProgSkips, ProgSkipEnd, ProgSkipBefore, ProgGarbage,
      ProgRand, ProgSpin, ProgAssign, ProgDivZero, ProgDuplicate, ProgOverwrite, ProgUnknown,
      ProgWidths, ProgRetOnEmpty, ProgOverwriteAfter, ProgOverwriteAlias, ProgReassign,
      ProgAlias, ProgDuplicateAdjacent, ProgSkipBack, ProgGrow, ProgRetZ }
    \cup StoreLoadPrograms \cup EdgePrograms \cup RetPrograms \cup FreshLoadPrograms
    \cup JumpOutPrograms \cup ReadOnlyPrograms \cup PushPopPrograms \cup ShiftPrograms
    \cup MulPrograms

\* What the run is given: the source and the characters of standard input.
Runs ==
    { [lines |-> pr, stdin |-> <<>>] : pr \in Programs }
    \cup { [lines |-> ProgEcho, stdin |-> in] : in \in { <<>>, <<65>>, <<0, 66>>, <<200>> } }
    \cup { [lines |-> pr, stdin |-> <<65, 66>>] : pr \in StdioWidthPrograms }

\* ------------------------------------------------------------------------
\* Specification
\* ------------------------------------------------------------------------

Init ==
    /\ \E run \in Runs : lines = run.lines /\ stdin = run.stdin
    /\ pc = "preprocess"
    /\ err = ""
    /\ stdout = <<>>
    /\ variables = InitialVariables
    /\ instructions = <<>>
    /\ data_segment = <<>>
    /\ data_offsets = <<>>
    /\ no_pseudo = <<>>
    /\ instr_nrs = <<>>
    /\ offsets = <<>>
    /\ labels = <<>>
    /\ positions = <<>>
    /\ binary = <<>>
    /\ cpu = [data |-> <<>>, instructions |-> <<>>]
    /\ isp = I(0)
    /\ regs = InitialRegs
    /\ callstack = <<>>
    /\ stack = <<>>
    /\ heap = <<>>
    /\ cycle_count = EmptyBag
    /\ result = <<>>
    /\ executed = EmptyBag
    /\ last = [name |-> ""]
    /\ calls = <<>>

Next ==
    \/ Preprocess
    \/ PoolData
    \/ TranslatePseudo
    \/ SubstituteLabels
    \/ EncodeAll
    \/ Construct
    \/ ExecAlu
    \/ ExecMulDiv
    \/ ExecLoad
    \/ ExecStore
    \/ ExecRand
    \/ ExecJump
    \/ ExecCall
    \/ ExecRet
    \/ ExecHalt
    \/ DecodeFault
    \/ RaiseOutside

Spec == Init /\ [][Next]_vars

\* ------------------------------------------------------------------------
\* Properties
\* ------------------------------------------------------------------------

\* The state right after a ret that popped a frame.
JustReturned == pc = "run" /\ last.name = "ret" /\ last.ok

\* The register set of the bitmap of the ret just executed.
ReturnedSet == {k \in RegNames : \E i \in 1..Len(last.args) : last.args[i] = Reg(k)}

\* The offset at which the instruction after the one emitted at `at` begins.
FollowingOffset(at) ==
    LET k == CHOOSE j \in 1..Len(positions) : positions[j] = at
    IN  IF k < Len(positions) THEN positions[k + 1] ELSE Len(cpu.instructions)

\* C1: right after every ret matched with a call (nested calls included),
\* with R the register set of the ret bitmap, every register in R holds the
\* value it had just before the ret, every register outside R holds the value
\* it had just before the call, and isp is the offset of the instruction that
\* follows the call.
C1_CallRetContract ==
    JustReturned =>
        /\ \A k \in ReturnedSet : regs[k] = last.regs[k]
        /\ \A k \in RegNames \ ReturnedSet : regs[k] = last.call.regs[k]
        /\ isp = I(FollowingOffset(last.call.at))

\* C1 witness: a ret of a nested call (a frame is still open) whose bitmap
\* carries a changed register out while another changed register is restored.
C1_Witness ==
    /\ JustReturned
    /\ callstack # <<>>
    /\ \E k \in ReturnedSet : last.regs[k] # last.call.regs[k]
    /\ \E k \in RegNames \ ReturnedSet : last.regs[k] # last.call.regs[k]

\* assemble has returned the binary.
Assembled == Len(binary) >= 4

\* The instruction stream inside the binary.
InstrStream == SubSeq(binary, 5 + Len(data_segment), Len(binary))

\* What the decoder yields at the start offset of expanded instruction k.
DecodedAt(k) == Decode(InstrStream, positions[k])

\* The operand a legal operand is to decode as: a register as its letter, an
\* integer in [-2^63, 2^64) modulo 2^64, a label as its byte offset.
DecodesAs(arg) ==
    IF IsReg(arg) THEN Reg(arg.reg)
    ELSE IF IsLabel(arg) THEN Imm(arg.offset)
    ELSE Imm(IF arg.v.neg THEN IntAdd(arg.v, P2(64)) ELSE arg.v)

\* Mnemonic and length of expanded instruction k survive the round trip.
SameMnemonicAndLength(k) ==
    /\ DecodedAt(k).err = ""
    /\ DecodedAt(k).name = no_pseudo[k].instr
    /\ DecodedAt(k).isp = positions[k] + Len(encode(no_pseudo[k]))

\* The operands of expanded instruction k decode in order as themselves.
SameOperands(k) ==
    /\ Len(DecodedAt(k).args) >= Len(no_pseudo[k].args)
    /\ \A i \in 1..Len(no_pseudo[k].args) :
           DecodedAt(k).args[i] = DecodesAs(no_pseudo[k].args[i])

\* The operands of a ret decode as its registers among a..y, each once, in
\* alphabetical order.
SameBitmap(k) ==
    LET d == DecodedAt(k).args
    IN  /\ \A i \in 1..Len(d) : IsReg(d[i])
        /\ \A i \in 1..Len(d) : \A j \in 1..Len(d) :
               i < j => LetterIndex(d[i].reg) < LetterIndex(d[j].reg)
        /\ {d[i] : i \in 1..Len(d)}
             = {no_pseudo[k].args[i] : i \in 1..Len(no_pseudo[k].args)} \ {Reg("z")}

\* C2 as stated: decoding the bytes Instr.encode produced for any expanded
\* instruction, ret with any list of registers included, at their start
\* offset yields the same mnemonic and, in the same order, the same operands,
\* and advances isp by the number of bytes encoded.
C2_DecodeEncodeSameOrder ==
    Assembled => \A k \in 1..Len(no_pseudo) : SameMnemonicAndLength(k) /\ SameOperands(k)

\* C2 amended: the round trip holds in order for every instruction but ret;
\* a ret decodes as the registers of its list among a..y, each once, in
\* alphabetical order (z is dropped); mnemonic and length survive for both.
C2_DecodeEncode ==
    Assembled =>
        \A k \in 1..Len(no_pseudo) :
            /\ SameMnemonicAndLength(k)
            /\ IF no_pseudo[k].instr = "ret" THEN SameBitmap(k) ELSE SameOperands(k)

\* C2 witness: an assembled program with a ret that lists z and another
\* register, a resolved label operand and a non-zero immediate.
C2_Witness ==
    /\ Assembled
    /\ \E k \in 1..Len(no_pseudo) :
           /\ no_pseudo[k].instr = "ret"
           /\ Len(no_pseudo[k].args) >= 2
           /\ \E i \in 1..Len(no_pseudo[k].args) : no_pseudo[k].args[i] = Reg("z")
    /\ \E k \in 1..Len(no_pseudo) : \E i \in 1..Len(no_pseudo[k].args) :
           IsLabel(no_pseudo[k].args[i])
    /\ \E k \in 1..Len(no_pseudo) : \E i \in 1..Len(no_pseudo[k].args) :
           IsInt(no_pseudo[k].args[i]) /\ no_pseudo[k].args[i].v.neg

\* A heap or stack address: below the data segment.
HeapOrStack(a) == IntLt(a, DataBase)

\* C3: for every width in {1, 2, 4, 8}, a store of v at a heap or stack
\* address a completes without error, and the load of the same width at a
\* that follows it with no store in between completes without error and
\* returns v mod 2^(8 * width).
C3_StoreLoadRoundTrip ==
    (last.name \in Stores /\ HeapOrStack(last.vals[1])) =>
        /\ last.ok
        /\ LET width == StoreWidth(last.name)
               r     == load(last.vals[1], width, cpu.data, stack, heap, stdin)
           IN  r.err = "" /\ r.v = IntMask(last.vals[2], 8 * width)

\* The value of the operand of the halt that ended the run.
HaltOperandValue ==
    IF IsReg(last.args[1]) THEN regs[last.args[1].reg] ELSE last.args[1].v

\* C4: halt k ends the run with the value of k as exit code: the integer k
\* for an immediate, the current value of the register for a register
\* (mov a, 42 / halt a exits with 42).
C4_HaltExitCode == pc = "halted" => result = <<Imm(HaltOperandValue)>>

\* The byte positions at which an expanded instruction begins, the end of
\* the stream (the target of a label after the last instruction) included.
Boundaries == {offsets[j] : j \in 1..Len(offsets)}

\* C5: once assemble is past label substitution, every label operand (a
\* named label of any index up to the number of logical instructions, or an
\* anonymous sz/snz label) carries as offset a byte position at which an
\* expanded instruction begins.
C5_LabelsResolve ==
    pc \notin {"preprocess", "data", "pseudo", "labels"} =>
        \A k \in 1..Len(no_pseudo) : \A i \in 1..Len(no_pseudo[k].args) :
            IsLabel(no_pseudo[k].args[i]) =>
                /\ "offset" \in DOMAIN no_pseudo[k].args[i]
                /\ IsSmall(no_pseudo[k].args[i].offset)
                /\ ToNat(no_pseudo[k].args[i].offset) \in Boundaries

\* The immediate widths of the encoding, in bytes.
Widths == {0, 1, 2, 4, 8}

\* The range of the integers a width class holds.
InWidthRange(v, w) ==
    CASE w = 0 -> IsZero(v)
      [] w = 1 -> IntLe(I(-128), v) /\ IntLt(v, I(128))
      [] w = 2 -> IntLe(I(-32768), v) /\ IntLt(v, I(32768))
      [] w = 4 -> IntLe(IntNeg(P2(31)), v) /\ IntLt(v, P2(31))
      [] w = 8 -> IntLe(IntNeg(P2(63)), v) /\ IntLt(v, P2(64))

\* The smallest width whose range contains v.
SmallestWidth(v) ==
    CHOOSE w \in Widths :
        InWidthRange(v, w) /\ \A w2 \in Widths : InWidthRange(v, w2) => w <= w2

CodeOfWidth(w) == CASE w = 0 -> 0 [] w = 1 -> 1 [] w = 2 -> 2 [] w = 4 -> 3 [] w = 8 -> 4

\* The descriptor code and the immediate width an operand is to get.
ExpectedCode(arg) ==
    IF IsReg(arg) THEN 5 + LetterIndex(arg.reg)
    ELSE IF IsLabel(arg) THEN 3
    ELSE CodeOfWidth(SmallestWidth(arg.v))

ExpectedWidth(arg) ==
    IF IsReg(arg) THEN 0 ELSE IF IsLabel(arg) THEN 4 ELSE SmallestWidth(arg.v)

\* Descriptor i of the instruction word emitted for expanded instruction k.
DescriptorAt(k, i) ==
    LET p     == positions[k]
        flags == (InstrStream[p + 1] \div 128) + 2 * InstrStream[p + 2]
                 + 512 * InstrStream[p + 3] + 131072 * InstrStream[p + 4]
    IN  (flags \div Pow2(5 * (i - 1))) % 32

\* The integer operands of the expanded instructions.
IntOperands ==
    UNION { {no_pseudo[k].args[i].v :
                i \in {j \in 1..Len(no_pseudo[k].args) : IsInt(no_pseudo[k].args[j])}} :
            k \in 1..Len(no_pseudo) }

\* C6: for every operand of an encoded instruction other than ret: an
\* integer in [-2^63, 2^64) gets the smallest immediate width of 0, 1, 2, 4,
\* 8 bytes whose range contains it and the descriptor code 0, 1, 2, 3, 4 of
\* that width; a register gets code 5 + letter index and no immediate; a
\* label gets code 3 and 4 bytes.  The descriptor is read from the emitted
\* instruction word.
C6_SmallestWidth ==
    Assembled =>
        \A k \in 1..Len(no_pseudo) :
            no_pseudo[k].instr # "ret" =>
                \A i \in 1..Len(no_pseudo[k].args) :
                    /\ Len(EncodeArg(no_pseudo[k].args[i]).imm)
                         = ExpectedWidth(no_pseudo[k].args[i])
                    /\ EncodeArg(no_pseudo[k].args[i]).flag
                         = ExpectedCode(no_pseudo[k].args[i])
                    /\ DescriptorAt(k, i) = ExpectedCode(no_pseudo[k].args[i])

\* C6 witness: an assembled program whose integer operands take every one of
\* the five widths, with a register operand and a label operand beside them.
C6_Witness ==
    /\ Assembled
    /\ {SmallestWidth(v) : v \in IntOperands} = Widths
    /\ \E v \in IntOperands : v.neg
    /\ \E k \in 1..Len(no_pseudo) : \E i \in 1..Len(no_pseudo[k].args) :
           no_pseudo[k].instr # "ret" /\ IsReg(no_pseudo[k].args[i])
    /\ \E k \in 1..Len(no_pseudo) : \E i \in 1..Len(no_pseudo[k].args) :
           IsLabel(no_pseudo[k].args[i])

\* The sizes of the expanded instructions, in order.
Sizes == [k \in 1..Len(no_pseudo) |-> size(no_pseudo[k])]

\* C7: for every expanded instruction Instr.size() is the byte length of
\* Instr.encode(): 4 for ret, else 4 plus the immediate widths of the
\* operands; the prefix sums of the sizes used for label offsets are the
\* positions at which the instructions are emitted, and the sum of all sizes
\* is the byte length of the instruction stream.
C7_SizeIsEncodedLength ==
    Assembled =>
        /\ \A k \in 1..Len(no_pseudo) :
               /\ Sizes[k] = Len(encode(no_pseudo[k]))
               /\ Sizes[k] = IF no_pseudo[k].instr = "ret" THEN 4
                             ELSE 4 + Sum([i \in 1..Len(no_pseudo[k].args) |->
                                              ExpectedWidth(no_pseudo[k].args[i])])
        /\ Len(offsets) = Len(no_pseudo) + 1
        /\ \A k \in 1..Len(no_pseudo) :
               offsets[k] = positions[k] /\ offsets[k] = Sum(SubSeq(Sizes, 1, k - 1))
        /\ Sum(Sizes) = Len(InstrStream)
        /\ offsets[Len(offsets)] = Len(InstrStream)

\* C7 witness: an assembled stream of several instructions with a ret that
\* lists registers, a label operand and an 8-byte immediate in it.
C7_Witness ==
    /\ Assembled
    /\ Len(no_pseudo) >= 3
    /\ \E k \in 1..Len(no_pseudo) :
           no_pseudo[k].instr = "ret" /\ no_pseudo[k].args # <<>>
    /\ \E k \in 1..Len(no_pseudo) : \E i \in 1..Len(no_pseudo[k].args) :
           IsLabel(no_pseudo[k].args[i])
    /\ \E k \in 1..Len(no_pseudo) : Sizes[k] >= 12

\* The instructions as preprocess returned them, before the data pass.
SourceInstructions == preprocess(lines).instructions

\* The payloads of the data-literal operands, in operand order.
Literals ==
    Flatten([k \in 1..Len(SourceInstructions) |->
        LET args == SourceInstructions[k].args
            data == SelectSeq(args, IsData)
        IN  [i \in 1..Len(data) |-> data[i].data]])

\* The distinct payloads of lits in the order of their first occurrence.
RECURSIVE FirstSeen(_, _)
FirstSeen(lits, seen) ==
    IF lits = <<>> THEN seen
    ELSE FirstSeen(Tail(lits),
                   IF \E j \in 1..Len(seen) : seen[j] = Head(lits) THEN seen
                   ELSE Append(seen, Head(lits)))

DistinctLiterals == FirstSeen(Literals, <<>>)

\* 0x2000_0000_0000_0000 plus the encoded lengths of the distinct literals
\* first seen before d.
PooledAddress(d) ==
    LET j == CHOOSE m \in 1..Len(DistinctLiterals) : DistinctLiterals[m] = d
    IN  IntAdd(P2(61), I(Sum([m \in 1..(j - 1) |-> Len(DataEncode(DistinctLiterals[m]))])))

\* The data pass has run.
Pooled == pc \notin {"preprocess", "data"} /\ preprocess(lines).err = ""

\* C8: the data pass replaces every data-literal operand by the address of
\* its payload, 0x2000_0000_0000_0000 plus the total encoded length of the
\* distinct literals first seen before it (equal payloads get one address),
\* and the data segment holds the encoding of each distinct literal once, in
\* the order of first occurrence.
C8_PoolSharesEqualLiterals ==
    Pooled =>
        /\ Len(instructions) = Len(SourceInstructions)
        /\ \A k \in 1..Len(SourceInstructions) :
               \A i \in 1..Len(SourceInstructions[k].args) :
                   instructions[k].args[i] =
                       IF IsData(SourceInstructions[k].args[i])
                       THEN Imm(PooledAddress(SourceInstructions[k].args[i].data))
                       ELSE SourceInstructions[k].args[i]
        /\ data_segment = Flatten([m \in 1..Len(DistinctLiterals) |->
                                      DataEncode(DistinctLiterals[m])])

\* C8 witness: data("hi") used twice, among other literals: both uses carry
\* the address 0x2000_0000_0000_0000 and the segment starts 68 69 00 (hex).
C8_Witness ==
    /\ Pooled
    /\ Len(Literals) > Len(DistinctLiterals)
    /\ Len(DistinctLiterals) >= 3
    /\ Literals[1] = Hi /\ Literals[2] = Hi
    /\ instructions[1].args[2] = Imm(P2(61))
    /\ instructions[2].args[2] = Imm(P2(61))
    /\ SubSeq(data_segment, 1, 3) = <<104, 105, 0>>
    /\ Len(data_segment) = 22

\* C9: in every state of the machine every register a..z holds an integer
\* in [0, 2^64), whatever instructions have run (shl and shr with any shift
\* count included).
C9_RegistersStayUnsigned64 ==
    \A k \in RegNames : ~regs[k].neg /\ IntLt(regs[k], P2(64))

\* C10: every instruction the machine executes, ret and halt included, adds
\* its cycle cost to cycle_count exactly once: when the run has halted, the
\* instructions charged are the instructions executed, each as many times.
C10_EveryInstructionCharged == pc = "halted" => cycle_count = executed

\* The read/write segment an address below the data segment lies in.
SegmentOf(a) == IF IntLe(StackBase, a) THEN stack ELSE heap

\* No byte of the segment exists at address a: it lies at or beyond the end.
BeyondEnd(a) ==
    ~IsSmall(StoreOffset(a)) \/ ToNat(StoreOffset(a)) >= Len(SegmentOf(a))

\* C11: heap and stack are zero-filled on first access: a load of any width
\* from a heap or stack address at or beyond the end of its segment (the
\* initial empty segments included) raises no error and returns 0.
C11_FreshLoadsReadZero ==
    (last.name \in Loads /\ HeapOrStack(last.vals[2]) /\ BeyondEnd(last.vals[2])) =>
        last.ok /\ regs[last.args[1].reg] = I(0)

\* C12: run returns a value only by executing a halt; whenever isp is at or
\* beyond the length of the instruction stream (the program was left by
\* falling off its end or by a jump) the run ends right there with a
\* RuntimeError and returns nothing.
C12_ReturnsOnlyByHalt ==
    [][/\ (result' # <<>> /\ result = <<>>) =>
            (Fetched /\ Cur.name = "halt" /\ pc' = "halted" /\ last'.name = "halt")
       /\ (result' # <<>>) => pc' = "halted"
       /\ (pc = "run" /\ ~InProgram) =>
            (pc' = "error" /\ err' = "RuntimeError" /\ result' = <<>>)]_vars

\* C12 witness: a jump beyond the end of the program has ended the run with
\* a RuntimeError and without a result.
C12_Witness ==
    /\ pc = "error" /\ err = "RuntimeError" /\ result = <<>>
    /\ last.name = "jz" /\ last.ok
    /\ IntLt(I(Len(cpu.instructions)), isp)

\* The instruction fetched raises and leaves memory, registers and the
\* standard streams as they are.
RaisesWithoutEffect ==
    /\ pc' = "error"
    /\ err' \in {"RuntimeError", "struct.error"}
    /\ UNCHANGED <<heap, stack, cpu, regs, callstack, stdin, stdout>>

Completed(instr) == CopiesIn(instr, executed)

RetOnEmptyRaises ==
    (Fetched /\ Cur.name = "ret" /\ callstack = <<>>) =>
        /\ pc' = "error" /\ err' = "RuntimeError"
        /\ UNCHANGED <<regs, stack, heap, callstack, cpu, stdin, stdout, result>>
        /\ Completed("ret")' = Completed("ret")

\* C14: a ret with an empty call stack raises RuntimeError and changes neither
\* registers, stack, heap nor call stack; at every point of a run the
\* completed rets do not exceed the executed calls, and the call stack depth
\* is the number of executed calls minus the number of completed rets.
C14_RetNeedsFrame ==
    /\ [](/\ Completed("ret") <= Completed("call")
          /\ Len(callstack) = Completed("call") - Completed("ret"))
    /\ [][RetOnEmptyRaises]_vars

\* C14 witness: after one call and its ret, a second ret found the call stack
\* empty and raised.
C14_Witness ==
    /\ pc = "error" /\ err = "RuntimeError"
    /\ last.name = "ret" /\ ~last.ok
    /\ Completed("call") = 1 /\ Completed("ret") = 1
    /\ callstack = <<>> /\ heap # <<>> /\ stack # <<>>

\* C15: lw at the stdio address consumes one byte of standard input and
\* returns its value, for every byte 0..255; at end of input, and only then,
\* it returns 2^64-1; sw at the stdio address appends the low byte of its
\* operand to standard output and changes neither heap nor stack.
C15_StdioBytes ==
    [][Fetched =>
        /\ (Cur.name = "lw" /\ OutputsAreRegs(1) /\ Arg[2] = StdioAddr) =>
               /\ pc' = "run"
               /\ IF stdin = <<>>
                  THEN /\ regs'[Cur.args[1].reg] = IntSub(P2(64), I(1))
                       /\ stdin' = <<>>
                  ELSE /\ regs'[Cur.args[1].reg] = I(Head(stdin))
                       /\ stdin' = Tail(stdin)
        /\ (Cur.name = "sw" /\ Arg[1] = StdioAddr) =>
               /\ pc' = "run"
               /\ stdout' = Append(stdout, ToNat(IntMask(Arg[2], 8)))
               /\ UNCHANGED <<heap, stack>>]_vars

LabelNames == { lines[i].ident : i \in { j \in 1..Len(lines) : lines[j].kind = "label" } }

DuplicateLabel ==
    \E i, j \in 1..Len(lines) :
        i < j /\ lines[i].kind = "label" /\ lines[j].kind = "label"
              /\ lines[i].ident = lines[j].ident

\* The name is bound to a label once the lines up to i are read: it is a label
\* name, or its latest assignment copied a name bound to a label.
RECURSIVE BoundToLabel(_, _)
BoundToLabel(name, i) ==
    IF name \in LabelNames THEN TRUE
    ELSE IF i = 0 THEN FALSE
    ELSE IF lines[i].kind = "assign" /\ lines[i].ident = name
         THEN lines[i].expr.e = "name" /\ BoundToLabel(lines[i].expr.ident, i - 1)
         ELSE BoundToLabel(name, i - 1)

\* The instruction pass accepts the first i lines of the file.
AcceptedUpTo(i) ==
    InstrPass(SubSeq(lines, 1, i), 1, LabelPass(lines, 1, InitialVariables, 0).variables,
              <<>>).err = ""

\* Number of instruction lines above line i.
InstructionsAbove(i) == Cardinality({ j \in 1..(i - 1) : lines[j].kind = "instr" })

AssignLines == { i \in 1..Len(lines) : lines[i].kind = "assign" }

\* C16: during preprocess a name bound to a label is never rebound: a second
\* definition of a label is rejected with SyntaxError; an assignment to a name
\* bound to a label is rejected with SyntaxError, also when the label line
\* comes after the assignment; an assignment to a name that is not bound to a
\* label is accepted.
C16_LabelsNeverRebound ==
    [][pc = "preprocess" =>
        /\ DuplicateLabel => (pc' = "error" /\ err' = "SyntaxError")
        /\ \A i \in AssignLines :
              (~DuplicateLabel /\ AcceptedUpTo(i - 1)) =>
                  IF BoundToLabel(lines[i].ident, i - 1)
                  THEN pc' = "error" /\ err' = "SyntaxError"
                  ELSE (lines[i].expr.e = "lit" \/ lines[i].expr.ident \in LabelNames) =>
                           AcceptedUpTo(i)
        /\ pc' # "error" =>
              \A i \in 1..Len(lines) :
                  lines[i].kind = "label" =>
                      variables'[lines[i].ident] =
                          Label(I(InstructionsAbove(i)), lines[i].ident)]_vars

\* C16 witness: a file that defines a label and assigns to a name bound to
\* it has been rejected.
C16_Witness ==
    /\ pc = "error" /\ err = "SyntaxError"
    /\ ~DuplicateLabel
    /\ \E i \in AssignLines :
          /\ lines[i].ident \notin LabelNames
          /\ BoundToLabel(lines[i].ident, i - 1)
          /\ AcceptedUpTo(i - 1)

\* Number of real instructions a logical instruction expands to.
ExpansionLength(ins) == IF ins.instr \in {"push", "pop"} THEN 2 ELSE 1

\* Index in the expanded stream of the first instruction of logical p.
RECURSIVE FirstExpanded(_)
FirstExpanded(p) ==
    IF p = 0 THEN 0 ELSE FirstExpanded(p - 1) + ExpansionLength(instructions[p])

\* Byte offset at which logical instruction p starts in the emitted stream.
StartOf(p) == positions[FirstExpanded(p) + 1]

\* The logical sz/snz instructions whose jump is the instruction just executed.
SkipsJustExecuted ==
    { p \in 0..(Len(instructions) - 1) :
        /\ instructions[p + 1].instr = (IF last.name = "jz" THEN "sz" ELSE "snz")
        /\ StartOf(p) = last.at }

SkipTarget(p) == IntAdd(I(p + 1), instructions[p + 1].args[2].v)

SkipTaken == (last.name = "jz") = IsZero(last.vals[2])

\* C17: sz r, k (snz r, k) at logical index pc with 0 <= pc+k+1 < N continues,
\* when r is zero (non-zero), at the first expanded instruction of logical
\* instruction pc+k+1, also across push and pop; otherwise it continues at the
\* next instruction.
C17_SkipsWholeInstructions ==
    (pc = "run" /\ last.name \in {"jz", "jnz"} /\ last.ok) =>
        \A p \in SkipsJustExecuted :
            (IntLe(I(0), SkipTarget(p)) /\ IntLt(SkipTarget(p), I(Len(instructions)))) =>
                isp = IF SkipTaken THEN I(StartOf(ToNat(SkipTarget(p)))) ELSE I(last.end)

\* C17 witness: a taken backward skip has re-entered a push and a pop.
C17_Witness ==
    /\ pc = "run" /\ last.name = "jnz" /\ last.ok /\ SkipTaken
    /\ \E p \in SkipsJustExecuted :
          /\ IntLe(I(0), SkipTarget(p)) /\ IntLt(SkipTarget(p), I(p))
          /\ \E q \in (ToNat(SkipTarget(p)) + 1)..p :
                instructions[q].instr \in {"push", "pop"}
          /\ isp = I(StartOf(ToNat(SkipTarget(p))))

Larger(m, n) == IF m >= n THEN m ELSE n

\* Segment old has become new by a store of w bytes at offset o: the length
\* is max(old length, o + w), and every byte outside [o, o + w) is the old
\* byte, or zero where there was none.
GrownByStore(old, new, o, w) ==
    /\ Len(new) = Larger(Len(old), o + w)
    /\ \A i \in 1..Len(new) :
          (i <= o \/ i > o + w) => new[i] = (IF i <= Len(old) THEN old[i] ELSE 0)

\* The step is a store of the fetched width at a heap or stack address with
\* the effect the segments are to show.
StoreGrowsSegment ==
    LET o == ToNat(StoreOffset(Arg[1]))
        w == StoreWidth(Cur.name)
    IN  /\ cpu' = cpu
        /\ IF IntLe(StackBase, Arg[1])
           THEN GrownByStore(stack, stack', o, w) /\ heap' = heap
           ELSE GrownByStore(heap, heap', o, w) /\ stack' = stack

\* C18: the lengths of heap and stack never decrease; a store of width w at
\* segment offset o makes the segment's length max(old length, o + w), fills
\* the newly covered bytes outside [o, o + w) with zero, leaves the other
\* bytes outside [o, o + w), the other segment and the data segment unchanged.
C18_SegmentsGrow ==
    [][/\ Len(heap') >= Len(heap)
       /\ Len(stack') >= Len(stack)
       /\ (Fetched /\ Cur.name \in Stores /\ HeapOrStack(Arg[1])) => StoreGrowsSegment]_vars

\* In a file of pushes followed by as many pops: the line of the first push,
\* the number of pushes, the pointer register and its value before the
\* first push.
FirstPush == IF lines[1].ident = "mov" THEN 2 ELSE 1

Pushes == Cardinality({ i \in 1..Len(lines) : lines[i].ident = "push" })

\* The file is an optional mov r, start, then pushes through r, then as many
\* pops through r into other registers, then halt.
PushesThenPops ==
    /\ \A i \in 1..Len(lines) :
          lines[i].kind = "instr" /\ lines[i].ident \in {"mov", "push", "pop", "halt"}
    /\ Pushes >= 1
    /\ Len(lines) = FirstPush + 2 * Pushes
    /\ LET r == lines[FirstPush].args[1]
       IN  /\ FirstPush = 2 => (lines[1].args[1] = r /\ lines[1].args[2].e = "lit")
           /\ \A i \in FirstPush..(FirstPush + Pushes - 1) :
                 /\ lines[i].ident = "push" /\ lines[i].args[1] = r
                 /\ lines[i].args[2].e = "lit"
           /\ \A i \in (FirstPush + Pushes)..(Len(lines) - 1) :
                 /\ lines[i].ident = "pop" /\ lines[i].args[2] = r
                 /\ lines[i].args[1] # r
    /\ lines[Len(lines)].ident = "halt"

PointerStart == IF lines[1].ident = "mov" THEN lines[1].args[2].val.v ELSE StackBase

\* The value of the i-th push and the destination of the j-th pop.
Pushed(i) == lines[FirstPush + i - 1].args[2].val.v

Popped(j) == lines[FirstPush + Pushes + j - 1].args[1].ident

\* C19: n pushes through a register r that holds a heap or stack address,
\* followed by n pops through r into registers other than r, return the
\* values last in first out, the j-th pop yielding v(n+1-j) mod 2^64, and
\* leave r at its value before the first push; push z, 7 ; pop a, z leaves
\* a = 7 and z = 0x1000_0000_0000_0000.
C19_PushPopLifo ==
    PushesThenPops =>
        /\ pc # "error"
        /\ pc = "halted" =>
              /\ \A j \in 1..Pushes : regs[Popped(j)] = u(Pushed(Pushes + 1 - j))
              /\ regs[lines[FirstPush].args[1].ident] = PointerStart
              /\ (Pushes = 1 /\ FirstPush = 1) =>
                    (regs["a"] = I(7) /\ regs["z"] = P2(60))

\* C19 witness: three pushes through a heap pointer and three pops have run.
C19_Witness ==
    /\ PushesThenPops /\ pc = "halted"
    /\ Pushes = 3 /\ lines[FirstPush].args[1].ident = "h" /\ PointerStart = I(0)
    /\ regs["a"] = I(300) /\ regs["b"] = IntSub(P2(64), I(1)) /\ regs["c"] = I(7)
    /\ regs["h"] = I(0) /\ Len(heap) = 24

\* floor(a / 2^n) for -2^64 < a < 2^64 and n >= 0 of any size.
RightShifted(a, n) ==
    IF ~IsSmall(n) \/ ToNat(n) > 64
    THEN (IF a.neg THEN I(-1) ELSE I(0))
    ELSE IntFloorDiv(a, P2(ToNat(n)))

\* res is a * 2^n; for a count beyond MaxShift, res is at least |a| * 2^MaxShift
\* in magnitude.
IsShiftedLeft(res, a, n) ==
    IF IsZero(a) THEN IsZero(res)
    ELSE IF IsSmall(n) /\ ToNat(n) <= MaxShift THEN res = IntMul(a, P2(ToNat(n)))
    ELSE /\ res.neg = a.neg
         /\ IntLe(IntMul(MkInt(FALSE, a.mag), P2(MaxShift)), MkInt(FALSE, res.mag))

\* res is a * 2^n wrapped to 64 bits (zero for every count of 64 and more).
IsShiftedLeftWrapped(res, a, n) ==
    IF IsSmall(n) /\ ToNat(n) <= MaxShift THEN res = u(IntMul(a, P2(ToNat(n))))
    ELSE IsZero(res)

\* A shr or sar of 64-bit operands has just completed.
ShiftedRight ==
    /\ last.name \in {"shr", "sar"} /\ last.ok
    /\ IntLt(last.vals[2], P2(64)) /\ IntLt(last.vals[3], P2(64))

ShiftCount == twos(last.vals[3], 64)

ShiftResult == regs[last.args[1].reg]

\* The result is the right shift of a by n: logical for shr, of the
\* sign-extended a and wrapped to 64 bits for sar.
IsRightShiftBy(n) ==
    IF last.name = "shr" THEN ShiftResult = RightShifted(last.vals[2], n)
    ELSE ShiftResult = u(RightShifted(twos(last.vals[2], 64), n))

IsLeftShiftBy(n) ==
    IF last.name = "shr" THEN IsShiftedLeft(ShiftResult, last.vals[2], n)
    ELSE IsShiftedLeftWrapped(ShiftResult, twos(last.vals[2], 64), n)

\* C20 as stated: for all 64-bit a and b, shr(a, b) is a logical right shift by
\* twos(b) when twos(b) >= 0 and a left shift by |twos(b)| when twos(b) < 0,
\* b = 2^63 included; sar(a, b) is the same shift of the sign-extended a,
\* wrapped to 64 bits.
C20_ShiftBySignedCount ==
    ShiftedRight =>
        IF ShiftCount.neg THEN IsLeftShiftBy(IntNeg(ShiftCount))
        ELSE IsRightShiftBy(ShiftCount)

\* C20 amended: as stated for every count but b = 2^63; there the negated
\* count wraps to -2^63 again and the shift is a right shift by 2^63.
C20_ShiftBySignedCountButMin ==
    ShiftedRight =>
        IF ShiftCount = IntNeg(P2(63)) THEN IsRightShiftBy(P2(63))
        ELSE IF ShiftCount.neg THEN IsLeftShiftBy(IntNeg(ShiftCount))
        ELSE IsRightShiftBy(ShiftCount)

\* C20 witness: sar of 0x8000_0000_0000_0000 by 2^63 has given 2^64 - 1.
C20_Witness ==
    /\ ShiftedRight /\ last.name = "sar"
    /\ last.vals[2] = P2(63) /\ last.vals[3] = P2(63)
    /\ ShiftResult = IntSub(P2(64), I(1))

\* A mul or mulu of 64-bit operands has just completed.
Multiplied ==
    /\ last.name \in {"mul", "mulu"} /\ last.ok
    /\ IntLt(last.vals[3], P2(64)) /\ IntLt(last.vals[4], P2(64))

\* The signed value of the 64-bit x.
SignedOf(x) == IF IntLt(x, P2(63)) THEN x ELSE IntSub(x, P2(64))

\* The product the instruction is to split: of the operands for mulu, of
\* their signed values for mul.
Product ==
    IF last.name = "mulu" THEN IntMul(last.vals[3], last.vals[4])
    ELSE IntMul(SignedOf(last.vals[3]), SignedOf(last.vals[4]))

\* The 128-bit two's-complement form of the product, as a number in
\* [0, 2^128): the product itself for mulu, where it is never negative.
Product128 == IF Product.neg THEN IntAdd(Product, P2(128)) ELSE Product

\* What is left of the 128-bit form above the high half hi: the low half,
\* when hi is the high half.
LowGiven(hi) == IntSub(Product128, IntMul(hi, P2(64)))

InUnsigned64(x) == ~x.neg /\ IntLt(x, P2(64))

\* C21: for all 64-bit a and b, mulu writes (a * b) mod 2^64 to its first
\* destination and floor(a * b / 2^64) to its second; mul writes the low and
\* the high 64 bits of the 128-bit two's-complement form of
\* twos(a) * twos(b); both results lie in [0, 2^64). The second destination
\* is written last, so it wins when both name one register. Low half lo and
\* high half hi are the only numbers of [0, 2^64) with hi * 2^64 + lo equal to
\* the 128-bit form.
C21_FullProduct ==
    Multiplied =>
        LET lo == regs[last.args[1].reg]
            hi == regs[last.args[2].reg]
        IN  /\ InUnsigned64(lo) /\ InUnsigned64(hi)
            /\ InUnsigned64(LowGiven(hi))
            /\ last.args[1] # last.args[2] => lo = LowGiven(hi)
            /\ last.name = "mulu" => Product128 = IntMul(last.vals[3], last.vals[4])

\* C21 witness: mulu of 0xFFFFFFFFFFFFFFFF by 2 has written
\* 0xFFFFFFFFFFFFFFFE and 1.
C21_Witness ==
    /\ Multiplied /\ last.name = "mulu"
    /\ last.vals[3] = IntSub(P2(64), I(1)) /\ last.vals[4] = I(2)
    /\ last.args[1] # last.args[2]
    /\ regs[last.args[1].reg] = IntSub(P2(64), I(2))
    /\ regs[last.args[2].reg] = I(1)

\* The ret of the source, after expansion, that was emitted at offset at.
SourceRetAt(at) ==
    no_pseudo[CHOOSE k \in 1..Len(positions) : positions[k] = at]

\* C22: the stack pointer z never flows back through ret: after every ret
\* matched with a call, also one written with z among its registers, z holds
\* the value it had just before the call, whatever the callee did to z.
C22_StackPointerRestored ==
    JustReturned =>
        /\ regs["z"] = last.call.regs["z"]
        /\ Reg("z") \notin { last.args[i] : i \in 1..Len(last.args) }

\* C22 witness: a ret written with z has returned from a callee that moved
\* z, and z is back at its value from before the call.
C22_Witness ==
    /\ JustReturned
    /\ \E i \in 1..Len(SourceRetAt(last.at).args) :
          SourceRetAt(last.at).args[i] = Reg("z")
    /\ last.regs["z"] # last.call.regs["z"]
    /\ last.call.regs["z"] # StackBase
    /\ regs["z"] = last.call.regs["z"]

====
